---- MODULE Spec2Model ----
(***************************************************************************)
(* RepoPilot: the agent router, the /chat/smart orchestrator with its      *)
(* response and routing caches, the repository indexers, the evaluator,    *)
(* the agents, the refinement loop, the registry, cloning and the chat     *)
(* provider service.                                                       *)
(*                                                                         *)
(* The specifications of this module:                                      *)
(*   SpecRoute   AgentRouter.route over every short query                  *)
(*   SpecSmart   one smart_chat request, every routing and agent outcome   *)
(*   SpecCache   successive smart_chat requests against the caches         *)
(*   SpecIndex   POST /repo/index and Indexer.index_repo (backend)         *)
(*   SpecWIndex  Indexer.index_repo with the freshness shortcut (website)  *)
(*   SpecCIndex  concurrent ephemeral Indexer.index_repo calls (website)    *)
(*   SpecEmbed   one index_repo call under every embedding service         *)
(*   SpecSelect  Indexer._select_files_for_index over short listings       *)
(*   SpecStore   the ResponseCache methods called in any order             *)
(*   SpecEval    CodeEvaluator.evaluate_generation                         *)
(*   SpecAgents  Generator.generate, Answerer.answer, generate_tests       *)
(*   SpecRefine  RefinementLoop.run_refinement                             *)
(*   SpecRegistry  RepoManager registry: loads, index runs, restarts       *)
(*   SpecClone   _clone_github_repo (backend) and clone_repo (website)     *)
(*   SpecLLM     LLMService.chat_completion under every configuration      *)
(*   SpecChunk   Chunker.chunk_file over short files, every strategy       *)
(*   SpecChunkLive  Chunker.chunk_code_file under weak fairness            *)
(***************************************************************************)
EXTENDS Integers, Sequences, FiniteSets, TLC

VARIABLES
    rq,          \* route: the query handed to AgentRouter.route
    rpc,         \* route: "call" before the call, "returned" after it
    rdecision,   \* route: the RoutingDecision returned
    rllm         \* route: chat-provider calls made by the call

VARIABLES
    repoCommit,      \* smart: repo_id -> commit of the repository record (0: no record)
    before_reindex,  \* smart: repo_id -> the cache entries held at its last re-index
    cache_call,      \* cache: the last call of a ResponseCache method, with what it returned
    now,             \* smart: time.monotonic()
    response_store,  \* smart: ResponseCache._response_store, entries in dict order
    routing_store,   \* smart: ResponseCache._routing_store, entries in dict order
    spc,             \* smart: position of the request in smart_chat
    sreq,            \* smart: the ChatRequest (repo_id, question)
    scommit,         \* smart: commit_hash read at the start of the request
    sresult,         \* smart: the result dict under construction
    seval_res,       \* smart: eval_res of the gather / await
    stest_res,       \* smart: test_res of the gather
    scalls,          \* smart: calls made by the request, per callee
    sresp,           \* smart: what the request returned
    nreq,            \* smart: requests started so far
    prev,            \* smart: the request completed before the present one
    clean,           \* smart: nothing but the present request acted since prev completed
    pairClean        \* smart: value of clean when the present request completed

VARIABLES
    repos,                 \* index: RepoManager._repos, repo_id -> RepoInfo (NoRepo: none)
    registry_file,         \* index: the registry JSON file
    use_persistent_index,  \* index: settings.use_persistent_index
    index_meta,            \* index: repo_id -> the sidecar _index_meta.json of its store
    store_file,            \* index: repo_id -> chroma.sqlite3 exists in its store
    ipc,                   \* index: run -> position of its call in index_repo
    irun,                  \* index: run -> locals of its call
    iret,                  \* index: run -> what its last call answered
    embedding_service,     \* index: the EmbeddingService of the process
    collection,            \* index: repo_id -> dimensions of the vectors added to its collection
    listed_files,          \* index: the files handed to _select_files_for_index
    selected_files         \* index: what _select_files_for_index returned

VARIABLES
    epc,        \* evaluator: position of the call in evaluate_generation
    ediffs,     \* evaluator: generated_diffs of the call
    ecritic,    \* evaluator: critic_res of the gather
    edefender,  \* evaluator: defender_res of the gather
    eresult     \* evaluator: what the call returned or raised

VARIABLES
    apc,        \* agents: position of the call in generate / answer / generate_tests
    acall,      \* agents: the function called and its argument
    afailed,    \* agents: the internal step of the call that failed, if one did
    aret        \* agents: what the last completed call returned or raised

VARIABLES
    fpc,             \* refinement: position of the call in run_refinement
    fi,              \* refinement: the loop variable i
    current_code,    \* refinement: the text of current_code (0 is the empty text)
    current_tests,   \* refinement: the text of current_tests (0 is the empty text)
    iteration_log,   \* refinement: iteration_log
    iteration,       \* refinement: the IterationResult of the present iteration
    fruns,           \* refinement: runs of _run_pytest made by the call
    fres             \* refinement: what the call returned or raised

VARIABLES
    m_repos,        \* registry: RepoManager._repos of the running process
    m_file,         \* registry: repo_registry.json
    m_paths,        \* registry: the local paths that exist on disk
    m_persistent,   \* registry: settings.use_persistent_index
    m_reloaded      \* registry: the process has just restarted from the file

VARIABLES
    cpc,        \* clone: position of the call in _clone_github_repo / clone_repo
    csite,      \* clone: the service called ("backend" or "website")
    ctemp,      \* clone: the temporary clone directory of the call exists
    cattempt,   \* clone: attempt of _safe_remove_tree
    cleft,      \* clone: temporary directories left behind by calls that raised
    cret        \* clone: what the last call returned or raised

VARIABLES
    l_provider,    \* llm: LLMService.provider chosen by __init__
    l_settings,    \* llm: which API keys are configured
    lpc,           \* llm: position of the call in chat_completion
    l_override,    \* llm: provider_override of the call ("none": not given)
    l_called,      \* llm: the provider calls the call made, each with its outcome
    lret           \* llm: what the last call returned or raised

VARIABLES
    kpc,        \* chunker: position of the call in chunk_file
    kfile,      \* chunker: the file chunked: its lines and its chunk type
    kcfg,       \* chunker: the settings the Chunker was built with
    ki,         \* chunker: the loop variable i of chunk_code_file
    kchunks     \* chunker: the chunks list

routeVars == <<rq, rpc, rdecision, rllm>>

cacheVars == <<response_store, routing_store>>

smartVars == <<repoCommit, before_reindex, cache_call, now, cacheVars, spc, sreq, scommit, sresult, seval_res,
               stest_res, scalls, sresp, nreq, prev, clean, pairClean>>

indexVars == <<repos, registry_file, use_persistent_index, index_meta, store_file, ipc, irun,
               iret, embedding_service, collection, listed_files, selected_files>>

coreVars == <<routeVars, smartVars, indexVars>>

evalVars == <<epc, ediffs, ecritic, edefender, eresult>>

agentVars == <<apc, acall, afailed, aret>>

refineVars == <<fpc, fi, current_code, current_tests, iteration_log, iteration, fruns,
                fres>>

registryVars == <<m_repos, m_file, m_paths, m_persistent, m_reloaded>>

cloneVars == <<cpc, csite, ctemp, cattempt, cleft, cret>>

llmVars == <<l_provider, l_settings, lpc, l_override, l_called, lret>>

chunkVars == <<kpc, kfile, kcfg, ki, kchunks>>

serviceVars == <<evalVars, agentVars, refineVars, registryVars, cloneVars, llmVars,
                 chunkVars>>

vars == <<coreVars, serviceVars>>

(***************************************************************************)
(* Text.  A query is a sequence of characters; the letters are those that  *)
(* spell one pattern of each keyword list of the router.                   *)
(***************************************************************************)
Chars == {"a", "d", "e", "o", "s", "t", "D"}

MaxQueryLen == 5

RECURSIVE SeqsUpTo(_, _)
SeqsUpTo(S, n) ==
    IF n = 0 THEN {<<>>}
    ELSE LET shorter == SeqsUpTo(S, n - 1)
         IN  shorter \cup {Append(s, c) : s \in {t \in shorter : Len(t) = n - 1}, c \in S}

\* str.lower() on one character
LowerChar(c) == IF c = "D" THEN "d" ELSE c

\* str.lower()
Lower(q) == [i \in 1..Len(q) |-> LowerChar(q[i])]

\* `pattern in q` on strings: pattern occurs as a contiguous substring
Contains(q, p) ==
    \E i \in 1..(Len(q) - Len(p) + 1) : SubSeq(q, i, i + Len(p) - 1) = p

IsSpace(c) == c = " "

\* str.strip()
RECURSIVE LStrip(_)
LStrip(q) == IF q # <<>> /\ IsSpace(Head(q)) THEN LStrip(Tail(q)) ELSE q

RECURSIVE RStrip(_)
RStrip(q) ==
    IF q # <<>> /\ IsSpace(q[Len(q)]) THEN RStrip(SubSeq(q, 1, Len(q) - 1)) ELSE q

Strip(q) == RStrip(LStrip(q))

\* len(q.split()): the number of maximal runs of non-space characters
WordCount(q) ==
    Cardinality({i \in 1..Len(q) : ~IsSpace(q[i]) /\ (i = 1 \/ IsSpace(q[i - 1]))})

(***************************************************************************)
(* AgentRouter                                                             *)
(***************************************************************************)
AgentAction == {"EXPLAIN", "GENERATE", "TEST", "DECOMPOSE", "REFUSE"}

\* RoutingDecision; confidence in hundredths
RoutingDecision(primary, secondary, reasoning, conf, decomp, parallel, skip) ==
    [primary_action |-> primary, secondary_actions |-> secondary,
     reasoning |-> reasoning, confidence |-> conf, should_decompose |-> decomp,
     parallel_agents |-> parallel, skip_agents |-> skip]

\* The patterns and keywords of the router's lists that the letters spell.
REFUSE_PATTERNS == {<<"d", "d", "o", "s">>}
test_keywords == {<<"t", "e", "s", "t">>}
gen_keywords == {<<"a", "d", "d">>}
DECOMPOSE_MARKERS == {}

DecomposeMinWords == 8
DecomposeLongWords == 20

\* (mutation) the query is matched without lowercasing it
is_unsafe_query_cased(query) == \E p \in REFUSE_PATTERNS : Contains(query, p)

is_unsafe_query(query) == \E p \in REFUSE_PATTERNS : Contains(Lower(query), p)

heuristic_route(query) ==
    LET q == Lower(query) IN
    IF is_unsafe_query(query)
    THEN RoutingDecision("REFUSE", <<>>, "unsafe", 95, FALSE, <<>>, <<>>)
    ELSE IF \E k \in test_keywords : Contains(q, k)
    THEN RoutingDecision("TEST", <<>>, "test", 90, FALSE, <<>>, <<>>)
    ELSE IF \E k \in gen_keywords : Contains(q, k)
    THEN RoutingDecision("GENERATE", <<"TEST">>, "gen", 85, FALSE, <<"TEST">>, <<>>)
    ELSE IF (\E m \in DECOMPOSE_MARKERS : Contains(q, m)) /\ WordCount(q) > DecomposeMinWords
    THEN RoutingDecision("DECOMPOSE", <<"EXPLAIN">>, "markers", 80, TRUE, <<>>, <<>>)
    ELSE IF WordCount(q) > DecomposeLongWords
    THEN RoutingDecision("DECOMPOSE", <<"EXPLAIN">>, "length", 70, TRUE, <<>>, <<>>)
    ELSE RoutingDecision("EXPLAIN", <<>>, "simple", 80, FALSE, <<>>,
                         <<"GENERATE", "TEST", "DECOMPOSE">>)

\* What one chat-provider attempt yields: a decision parsed from its JSON, or
\* a failure (provider error, invalid JSON, validation error).
LLMOutcome(ok, d) == [ok |-> ok, decision |-> d]

NoDecision == RoutingDecision("NONE", <<>>, "none", 0, FALSE, <<>>, <<>>)

LLMFail == LLMOutcome(FALSE, NoDecision)

\* route(query): o1 and o2 are the outcomes of the 0.5b and the 1.5b attempt,
\* consulted only when the attempt is made.
route(query, o1, o2) ==
    IF is_unsafe_query(query)
    THEN [decision |-> RoutingDecision("REFUSE", <<>>, "pre-check", 99, FALSE, <<>>, <<>>),
          llm_calls |-> 0]
    ELSE IF o1.ok THEN [decision |-> o1.decision, llm_calls |-> 1]
    ELSE IF o2.ok THEN [decision |-> o2.decision, llm_calls |-> 2]
    ELSE [decision |-> heuristic_route(query), llm_calls |-> 2]

(***************************************************************************)
(* ResponseCache (app/utils/cache.py).  A store is the dict as the         *)
(* sequence of its entries in insertion order; a key is the text that is   *)
(* hashed, SHA-256 being taken as injective.                               *)
(***************************************************************************)
RESPONSE_TTL_SECONDS == 600
RESPONSE_MAX_ENTRIES == 200
ROUTING_TTL_SECONDS == 1800
ROUTING_MAX_ENTRIES == 500

\* (mutation) the key leaves the commit hash out
response_key_no_commit(repo_id, question, commit_hash) ==
    <<repo_id, Lower(Strip(question)), 0>>

response_key(repo_id, question, commit_hash) ==
    <<repo_id, Lower(Strip(question)), commit_hash>>

routing_key(question) == Lower(Strip(question))

CacheEntry(key, value, t) ==
    [key |-> key, value |-> value, created_at |-> t, hits |-> 0]

is_expired(entry, ttl_seconds, t) == (t - entry.created_at) > ttl_seconds

\* position of key in the store, 0 when it is not there
IndexOfKey(store, key) ==
    IF \E i \in 1..Len(store) : store[i].key = key
    THEN CHOOSE i \in 1..Len(store) : store[i].key = key
    ELSE 0

RemoveAt(store, i) == SubSeq(store, 1, i - 1) \o SubSeq(store, i + 1, Len(store))

\* get_response / get_routing: [hit, value, store]
cache_get(store, key, ttl_seconds, t) ==
    LET i == IndexOfKey(store, key) IN
    IF i = 0 THEN [hit |-> FALSE, at |-> 0, store |-> store]
    ELSE IF is_expired(store[i], ttl_seconds, t)
    THEN [hit |-> FALSE, at |-> 0, store |-> RemoveAt(store, i)]
    ELSE [hit |-> TRUE, at |-> i, store |-> [store EXCEPT ![i].hits = @ + 1]]

get_response(store, repo_id, question, commit_hash, t) ==
    cache_get(store, response_key(repo_id, question, commit_hash), RESPONSE_TTL_SECONDS, t)

get_routing(store, question, t) ==
    cache_get(store, routing_key(question), ROUTING_TTL_SECONDS, t)

\* sorted(store, key=created_at)[:count] removed: the sort is stable, so the
\* entry removed next is the first one in dict order with the least created_at
RECURSIVE evict_oldest(_, _)
evict_oldest(store, count) ==
    IF count = 0 \/ store = <<>> THEN store
    ELSE LET i == CHOOSE j \in 1..Len(store) :
                    /\ \A k \in 1..Len(store) : store[j].created_at <= store[k].created_at
                    /\ \A k \in 1..(j - 1) : store[k].created_at > store[j].created_at
         IN  evict_oldest(RemoveAt(store, i), count - 1)

\* (mutation) the eviction waits until the store is over its capacity
cache_put_over_capacity(store, key, value, t, max_entries) ==
    LET kept == IF Len(store) > max_entries
                THEN evict_oldest(store, max_entries \div 4) ELSE store
        i == IndexOfKey(kept, key)
    IN  IF i = 0 THEN Append(kept, CacheEntry(key, value, t))
        ELSE [kept EXCEPT ![i] = CacheEntry(key, value, t)]

\* store[key] = _CacheEntry(value): a present key keeps its place in the dict
cache_put(store, key, value, t, max_entries) ==
    LET kept == IF Len(store) >= max_entries
                THEN evict_oldest(store, max_entries \div 4) ELSE store
        i == IndexOfKey(kept, key)
    IN  IF i = 0 THEN Append(kept, CacheEntry(key, value, t))
        ELSE [kept EXCEPT ![i] = CacheEntry(key, value, t)]

put_response(store, repo_id, question, commit_hash, value, t) ==
    cache_put(store, response_key(repo_id, question, commit_hash), value, t,
              RESPONSE_MAX_ENTRIES)

put_routing(store, question, value, t) ==
    cache_put(store, routing_key(question), value, t, ROUTING_MAX_ENTRIES)

\* the response entries the scan of invalidate_repo collects: those whose
\* value is tagged with the repository
tagged_with(entry, repo_id) ==
    /\ "cache_repo_id" \in DOMAIN entry.value
    /\ entry.value.cache_repo_id = repo_id

\* (mutation) only the first tagged entry is collected
invalidate_repo_first_only(store, repo_id) ==
    LET found == {i \in 1..Len(store) : tagged_with(store[i], repo_id)}
        keys_to_remove == IF found = {} THEN {}
                          ELSE {store[CHOOSE i \in found : \A j \in found : i <= j].key}
    IN  [store |-> SelectSeq(store, LAMBDA e : e.key \notin keys_to_remove),
         count |-> Cardinality(keys_to_remove)]

\* invalidate_repo: [store, count]
invalidate_repo(store, repo_id) ==
    LET keys_to_remove == {store[i].key :
                              i \in {j \in 1..Len(store) : tagged_with(store[j], repo_id)}}
    IN  [store |-> SelectSeq(store, LAMBDA e : e.key \notin keys_to_remove),
         count |-> Cardinality(keys_to_remove)]

\* the record kept of the calls made on the cache: the last method called
\* and what it returned, the last response hit, and the repositories
\* invalidated with no response stored since
NoHit == [key |-> <<>>, at |-> -1]

NoCacheCall ==
    [op |-> "none", repo_id |-> "", key |-> <<>>, hit |-> FALSE, count |-> 0, calls |-> 0,
     last_hit |-> NoHit, invalidated |-> {}]

(***************************************************************************)
(* smart_chat (app/routes/chat.py)                                         *)
(***************************************************************************)
InSeq(x, s) == \E i \in 1..Len(s) : s[i] = x

\* (mutation) the list is returned with its duplicates
KeepAll(s) == s

\* list(dict.fromkeys(s)): first occurrences, in order
Dedupe(s) ==
    LET first == {i \in 1..Len(s) : \A j \in 1..(i - 1) : s[j] # s[i]}
        RECURSIVE pick(_)
        pick(i) == IF i > Len(s) THEN <<>>
                   ELSE IF i \in first THEN <<s[i]>> \o pick(i + 1) ELSE pick(i + 1)
    IN  pick(1)

Absent == [kind |-> "absent"]
NoStr == "(absent)"
REFUSAL_ANSWER == "I cannot safely process this request."

\* Outcomes of the awaited agents: a returned dict or a raised exception.
Raised == [kind |-> "error"]
ExplainOk(a, c) == [kind |-> "ok", answer |-> a, citations |-> "cites", confidence |-> c]
GenerateOk(n, plan) == [kind |-> "ok", diffs |-> n, plan |-> plan]
EvalOk(decision, n) == [kind |-> "ok", enabled |-> TRUE, decision |-> decision, improved |-> n]
TestOk == [kind |-> "ok"]
Pending == [kind |-> "pending"]
NotRun == [kind |-> "none"]

ExplainOutcomes == {ExplainOk("answer-1", "high"), ExplainOk("answer-2", "low"), Raised}
GenerateOutcomes == {GenerateOk(1, "plan-1"), GenerateOk(0, "plan-2"), Raised}
EvalOutcomes ==
    {EvalOk("ACCEPT_ORIGINAL", 0), EvalOk("MERGE_FEEDBACK", 0), EvalOk("MERGE_FEEDBACK", 1),
     EvalOk("MERGE_FEEDBACK", 2), EvalOk("REQUEST_REVISION", 0), Raised}
TestOutcomes == {TestOk, Raised}

NoCalls == [router |-> 0, llm |-> 0, explain |-> 0, generate |-> 0, evaluator |-> 0, test |-> 0]

wants_explain(d) == d.primary_action = "EXPLAIN" \/ InSeq("EXPLAIN", d.secondary_actions)
wants_generate(d) == d.primary_action = "GENERATE" \/ InSeq("GENERATE", d.secondary_actions)
wants_test(d) ==
    \/ d.primary_action = "TEST"
    \/ InSeq("TEST", d.secondary_actions)
    \/ InSeq("TEST", d.parallel_agents)
wants_decompose(d) == d.primary_action = "DECOMPOSE" \/ d.should_decompose

\* keys of phase_a_tasks when a routed TEST dispatches the generate task too
phase_a_tasks_test_generates(d) ==
    LET asked == (IF wants_explain(d) \/ wants_decompose(d) THEN {"explain"} ELSE {})
                 \cup (IF wants_generate(d) \/ wants_test(d) THEN {"generate"} ELSE {})
    IN  IF asked = {} /\ ~wants_test(d) THEN {"explain"} ELSE asked

\* keys of phase_a_tasks
phase_a_tasks(d) ==
    LET asked == (IF wants_explain(d) \/ wants_decompose(d) THEN {"explain"} ELSE {})
                 \cup (IF wants_generate(d) THEN {"generate"} ELSE {})
    IN  IF asked = {} /\ ~wants_test(d) THEN {"explain"} ELSE asked

\* result = {"routing": ..., "agents_used": [primary], "agents_skipped": skip_agents}
BaseResult(d) ==
    [routing |-> d, agents_used |-> <<d.primary_action>>, agents_skipped |-> d.skip_agents,
     answer |-> NoStr, citations |-> NoStr, confidence |-> NoStr,
     explain |-> Absent, generate |-> Absent, evaluation |-> Absent,
     evaluation_action |-> NoStr, evaluation_improved_code |-> Absent,
     impact |-> Absent, test |-> Absent, from_cache |-> FALSE, cache_repo_id |-> NoStr]

NoResult == BaseResult(NoDecision)

\* (mutation) a refused request is dispatched like any other
is_refused_never(d) == FALSE

is_refused(d) == d.primary_action = "REFUSE"

\* (mutation) improved code is surfaced whatever the list holds
ProcessEvaluationAnyList(result, eval_res) ==
    IF eval_res.kind = "error"
    THEN [result EXCEPT !.evaluation = [kind |-> "failed", enabled |-> FALSE]]
    ELSE LET r1 == [result EXCEPT !.evaluation = eval_res] IN
         IF eval_res.decision = "REQUEST_REVISION"
         THEN [r1 EXCEPT !.evaluation_action = "revision_recommended"]
         ELSE [r1 EXCEPT !.evaluation_improved_code =
                             [kind |-> "code", files |-> eval_res.improved]]

\* "Process evaluation result"
ProcessEvaluation(result, eval_res) ==
    IF eval_res.kind = "error"
    THEN [result EXCEPT !.evaluation = [kind |-> "failed", enabled |-> FALSE]]
    ELSE LET r1 == [result EXCEPT !.evaluation = eval_res] IN
         IF eval_res.decision = "REQUEST_REVISION"
         THEN [r1 EXCEPT !.evaluation_action = "revision_recommended"]
         ELSE IF eval_res.decision = "MERGE_FEEDBACK" /\ eval_res.improved > 0
         THEN [r1 EXCEPT !.evaluation_improved_code =
                             [kind |-> "code", files |-> eval_res.improved]]
         ELSE r1

evaluation_allows_test(eval_res) ==
    ~(eval_res.kind = "ok" /\ eval_res.decision = "REQUEST_REVISION")

\* (mutation) the speculative test result is kept whatever the verdict
ProcessTestKept(result, eval_res, test_res, wants) ==
    IF test_res.kind # "none" /\ wants THEN [result EXCEPT !.test = test_res] ELSE result

\* "Process test result (discard if evaluation rejected)"
ProcessTest(result, eval_res, test_res, wants) ==
    IF test_res.kind # "none" /\ wants
    THEN IF evaluation_allows_test(eval_res)
         THEN [result EXCEPT !.test = test_res]
         ELSE [result EXCEPT !.test = [kind |-> "skipped"],
                             !.agents_skipped = Append(@, "TEST")]
    ELSE result

\* agents_used and the top-level answer, lines 725-745
FinalResult(result, d, repo_id) ==
    LET used == Dedupe(<<d.primary_action>> \o d.secondary_actions \o d.parallel_agents)
        r1 == [result EXCEPT !.agents_used = used]
        r2 == IF r1.explain.kind = "ok"
              THEN [r1 EXCEPT !.answer = r1.explain.answer,
                              !.citations = r1.explain.citations,
                              !.confidence = r1.explain.confidence]
              ELSE IF r1.explain.kind = "error"
              THEN [r1 EXCEPT !.answer = "", !.citations = "none", !.confidence = "medium"]
              ELSE IF r1.generate.kind = "ok"
              THEN [r1 EXCEPT !.answer = r1.generate.plan, !.confidence = "high"]
              ELSE IF r1.generate.kind = "error"
              THEN [r1 EXCEPT !.answer = "Code generation completed.", !.confidence = "high"]
              ELSE [r1 EXCEPT !.answer = "Request processed.", !.confidence = "medium"]
    IN  [r2 EXCEPT !.cache_repo_id = repo_id]

Repos == {"r1"}
Questions == {<<"a", "d", "d">>, <<"D", "d", "o", "s">>, <<"o">>}

MaxCommit == 2
MaxRequests == 2
MaxClock == 2100
TickStep == 700

Response(status, result) == [status |-> status, result |-> result]
NoResponse == Response("none", NoResult)
NoRequest == [repo_id |-> "", question |-> <<>>]
Completed(req, commit, resp, calls) ==
    [req |-> req, commit |-> commit, resp |-> resp, calls |-> calls]
NoPrev == Completed(NoRequest, 0, NoResponse, NoCalls)

\* the request returns (or fails with HTTP 500): what it leaves behind
Return(resp) ==
    /\ sresp' = resp
    /\ spc' = "idle"
    /\ pairClean' = clean
    /\ clean' = TRUE

\* a /chat/smart request arrives
SmartArrive(repo_id, question) ==
    /\ spc = "idle"
    /\ nreq < MaxRequests
    /\ nreq' = nreq + 1
    /\ prev' = Completed(sreq, scommit, sresp, scalls)
    /\ pairClean' = FALSE
    /\ sreq' = [repo_id |-> repo_id, question |-> question]
    /\ scommit' = 0
    /\ scalls' = NoCalls
    /\ seval_res' = NotRun
    /\ stest_res' = NotRun
    /\ sresult' = NoResult
    /\ sresp' = NoResponse
    /\ spc' = "begin"
    /\ UNCHANGED <<repoCommit, before_reindex, cache_call, now, cacheVars, clean>>

\* commit_hash = repo_info.commit_hash if repo_info else "unknown"; cache check
SmartBegin ==
    /\ spc = "begin"
    /\ scommit' = repoCommit[sreq.repo_id]
    /\ LET got == get_response(response_store, sreq.repo_id, sreq.question,
                               repoCommit[sreq.repo_id], now) IN
       IF got.hit
       THEN \* cached["_from_cache"] = True marks the stored dict itself
            /\ response_store' = [got.store EXCEPT ![got.at].value.from_cache = TRUE]
            /\ Return(Response("ok", [got.store[got.at].value EXCEPT !.from_cache = TRUE]))
       ELSE /\ response_store' = got.store
            /\ spc' = "route"
            /\ UNCHANGED <<sresp, pairClean, clean>>
    /\ UNCHANGED <<repoCommit, before_reindex, cache_call, now, routing_store, sreq, sresult, seval_res, stest_res,
                   scalls, nreq, prev>>

\* Step 1 and step 2: the routing decision, the base result, REFUSE
SmartRoute(llm_outcomes) ==
    /\ spc = "route"
    /\ \E o1 \in llm_outcomes : \E o2 \in (IF o1.ok THEN {LLMFail} ELSE llm_outcomes) :
         LET got == get_routing(routing_store, sreq.question, now)
             routed == route(sreq.question, o1, o2)
             decision == IF got.hit THEN got.store[got.at].value ELSE routed.decision
             result == BaseResult(decision)
         IN  /\ routing_store' =
                    IF got.hit THEN got.store
                    ELSE put_routing(got.store, sreq.question, routed.decision, now)
             /\ scalls' = IF got.hit THEN scalls
                          ELSE [scalls EXCEPT !.router = @ + 1, !.llm = @ + routed.llm_calls]
             /\ IF is_refused(decision)
                THEN /\ sresult' = [result EXCEPT !.answer = REFUSAL_ANSWER,
                                                  !.confidence = "low"]
                     /\ Return(Response("ok", sresult'))
                ELSE /\ sresult' = result
                     /\ spc' = "phaseA"
                     /\ UNCHANGED <<sresp, pairClean, clean>>
    /\ UNCHANGED <<repoCommit, before_reindex, cache_call, now, response_store, sreq, scommit, seval_res, stest_res,
                   nreq, prev>>

\* Phase A: asyncio.gather of the explain and generate tasks
SmartPhaseA(explain_outcomes, generate_outcomes) ==
    /\ spc = "phaseA"
    /\ LET tasks == phase_a_tasks(sresult.routing) IN
       \E e \in explain_outcomes, g \in generate_outcomes :
         /\ sresult' = [sresult EXCEPT
                          !.explain = IF "explain" \in tasks THEN e ELSE @,
                          !.generate = IF "generate" \in tasks THEN g ELSE @]
         /\ scalls' = [scalls EXCEPT
                          !.explain = IF "explain" \in tasks THEN @ + 1 ELSE @,
                          !.generate = IF "generate" \in tasks THEN @ + 1 ELSE @]
    /\ spc' = "phaseBC"
    /\ UNCHANGED <<repoCommit, before_reindex, cache_call, now, cacheVars, sreq, scommit, seval_res, stest_res, sresp,
                   nreq, prev, clean, pairClean>>

\* lines 744-748: the result is completed, cached and returned
Finish(result) ==
    LET final == FinalResult(result, result.routing, sreq.repo_id) IN
    /\ sresult' = final
    /\ response_store' =
           put_response(response_store, sreq.repo_id, sreq.question, scommit, final, now)
    /\ Return(Response("ok", final))

\* Phase B+C is entered: the evaluator and the speculative test are started,
\* or the request finishes without them
SmartLaunch(test_outcomes) ==
    /\ spc = "phaseBC"
    /\ LET wants == wants_test(sresult.routing) IN
       IF sresult.generate.kind # "absent"
       THEN IF sresult.generate.kind = "ok" /\ sresult.generate.diffs > 0
            THEN /\ seval_res' = Pending
                 /\ stest_res' = IF wants THEN Pending ELSE NotRun
                 /\ scalls' = [scalls EXCEPT !.evaluator = @ + 1,
                                             !.test = IF wants THEN @ + 1 ELSE @]
                 /\ spc' = "gather"
                 /\ UNCHANGED <<sresult, response_store, sresp, pairClean, clean>>
            ELSE /\ Finish([sresult EXCEPT !.evaluation =
                                               [kind |-> "no_diffs", enabled |-> FALSE]])
                 /\ UNCHANGED <<seval_res, stest_res, scalls>>
       ELSE IF wants
       THEN \E t \in test_outcomes :
              /\ stest_res' = t
              /\ scalls' = [scalls EXCEPT !.test = @ + 1]
              /\ Finish([sresult EXCEPT !.test = t])
              /\ UNCHANGED seval_res
       ELSE /\ Finish(sresult)
            /\ UNCHANGED <<seval_res, stest_res, scalls>>
    /\ UNCHANGED <<repoCommit, before_reindex, cache_call, now, routing_store, sreq, scommit, nreq, prev>>

\* evaluator.evaluate_generation returns or raises
SmartEvalDone(eval_outcomes) ==
    /\ spc = "gather"
    /\ seval_res = Pending
    /\ \E o \in eval_outcomes : seval_res' = o
    /\ UNCHANGED <<repoCommit, before_reindex, cache_call, now, cacheVars, spc, sreq, scommit, sresult, stest_res,
                   scalls, sresp, nreq, prev, clean, pairClean>>

\* _run_test returns or raises
SmartTestDone(test_outcomes) ==
    /\ spc = "gather"
    /\ stest_res = Pending
    /\ \E o \in test_outcomes : stest_res' = o
    /\ UNCHANGED <<repoCommit, before_reindex, cache_call, now, cacheVars, spc, sreq, scommit, sresult, seval_res,
                   scalls, sresp, nreq, prev, clean, pairClean>>

\* the gather (or the lone await) is over: lines 677-710, then the finish
SmartJoin ==
    /\ spc = "gather"
    /\ seval_res # Pending
    /\ stest_res # Pending
    /\ IF stest_res.kind = "none" /\ seval_res.kind = "error"
       THEN \* eval_res = await eval_coro raised: HTTP 500
            /\ Return(Response("error", NoResult))
            /\ UNCHANGED <<sresult, response_store>>
       ELSE Finish(ProcessTest(ProcessEvaluation(sresult, seval_res), seval_res, stest_res,
                               wants_test(sresult.routing)))
    /\ UNCHANGED <<repoCommit, before_reindex, cache_call, now, routing_store, sreq, scommit, seval_res, stest_res,
                   scalls, nreq, prev>>

\* the entries of the caches at a moment: the response entries of a
\* repository and the routing entries, each named by its key and created_at
EntryNames(store) == {<<store[i].key, store[i].created_at>> : i \in 1..Len(store)}

Held(responses, routings, repo_id) ==
    [responses |-> {n \in EntryNames(responses) : n[1][1] = repo_id},
     routings |-> EntryNames(routings)]

NothingHeld == [responses |-> {}, routings |-> {}]

\* time passes
Tick ==
    /\ now + TickStep <= MaxClock
    /\ now' = now + TickStep
    /\ clean' = FALSE
    /\ UNCHANGED <<repoCommit, before_reindex, cache_call, cacheVars, spc, sreq, scommit, sresult, seval_res, stest_res,
                   scalls, sresp, nreq, prev, pairClean>>

\* a repository is loaded at a commit not seen before: self._repos[repo_id] = repo_info
LoadRepo(repo_id) ==
    /\ repoCommit[repo_id] < MaxCommit
    /\ repoCommit' = [repoCommit EXCEPT ![repo_id] = @ + 1]
    /\ before_reindex' = [before_reindex EXCEPT ![repo_id] =
                              Held(response_store, routing_store, repo_id)]
    /\ clean' = FALSE
    /\ UNCHANGED <<cache_call, now, cacheVars, spc, sreq, scommit, sresult, seval_res, stest_res,
                   scalls, sresp, nreq, prev, pairClean>>

(***************************************************************************)
(* The repository registry and the indexers.  A RepoInfo is a function     *)
(* from its declared field names to their values, so that hasattr is       *)
(* membership in its domain.  The state an index_repo call works on is     *)
(* gathered in one record (IState) that each part of the call maps to the  *)
(* state it leaves; an action is one stretch of the call between two       *)
(* suspensions of the coroutine.                                           *)
(***************************************************************************)
Runs == {"a", "b"}

MaxFiles == 1
file_read_concurrency == 1
MaxProduced == 3
max_chunks == 2
batch_size == 1

Min(a, b) == IF a <= b THEN a ELSE b

\* the fields RepoInfo declares, of those the indexers read or write
RepoInfoFields == {"commit_hash", "indexed", "chunk_count"}

\* the further keywords the indexers hand to update_repo
IndexStateFields == {"is_indexing", "index_progress_pct", "index_processed_chunks",
                     "index_total_chunks"}

NoRepo == [k \in {"missing"} |-> TRUE]

\* a record as load_repo creates it
NewRepoInfo(fields, commit_hash) ==
    [k \in fields |-> CASE k = "commit_hash" -> commit_hash
                        [] k \in {"indexed", "is_indexing"} -> FALSE
                        [] OTHER -> 0]

has_repo(rs, repo_id) == "missing" \notin DOMAIN rs[repo_id]

get_repo(rs, repo_id) == rs[repo_id]

WriteOutcomes == {"ok", "failed", "truncated"}

NoRegistry == [state |-> "absent", data |-> [id \in {} |-> NoRepo]]

\* _save_registry: the dump of every record is written; a failing write is
\* logged and swallowed, the file left as it was or cut short
save_registry(rs, file, w) ==
    CASE w = "ok" -> [state |-> "written",
                      data |-> [id \in {i \in DOMAIN rs : has_repo(rs, i)} |-> rs[id]]]
      [] w = "failed" -> file
      [] OTHER -> [state |-> "corrupt", data |-> [id \in {} |-> NoRepo]]

\* update_repo on the state s of a call
update_repo(s, repo_id, persist, updates, w) ==
    IF has_repo(s.repos, repo_id)
    THEN LET rec == s.repos[repo_id]
             new == [k \in DOMAIN rec |-> IF k \in DOMAIN updates THEN updates[k] ELSE rec[k]]
             rs == [s.repos EXCEPT ![repo_id] = new]
         IN  [s EXCEPT !.repos = rs,
                       !.registry = IF persist THEN save_registry(rs, @, w) ELSE @]
    ELSE s

\* _select_files_for_index.  A listed file is its language, the depth of its
\* path and its size; sizes and caps are counted in units of 8 KiB.
code_languages == {"py"}
config_languages == {"json"}

FileLanguages == {"py", "json", "md"}
MaxDepth == 1
MaxFileSize == 5
MaxListed == 3

ListedFile == [language : FileLanguages, depth : 0..MaxDepth, size : 0..MaxFileSize]

target_size == 3
max_index_files == 2
max_file_size_bytes == 4
max_index_total_bytes == 6

Abs(n) == IF n < 0 THEN -n ELSE n

_priority_for_file(file_meta) ==
    <<IF file_meta.language \in code_languages THEN 0
      ELSE IF file_meta.language \in config_languages THEN 1
      ELSE 2,
      file_meta.depth,
      Abs(file_meta.size - target_size)>>

\* comparison of two priority tuples
TupleLess(a, b) ==
    \/ a[1] < b[1]
    \/ a[1] = b[1] /\ a[2] < b[2]
    \/ a[1] = b[1] /\ a[2] = b[2] /\ a[3] < b[3]

\* list.sort(key=...): stable, ascending
RECURSIVE SortedInsert(_, _)
SortedInsert(sorted, f) ==
    IF sorted = <<>> THEN <<f>>
    ELSE IF TupleLess(_priority_for_file(f), _priority_for_file(Head(sorted)))
    THEN <<f>> \o sorted
    ELSE <<Head(sorted)>> \o SortedInsert(Tail(sorted), f)

RECURSIVE SortByPriority(_)
SortByPriority(files) ==
    IF files = <<>> THEN <<>>
    ELSE SortedInsert(SortByPriority(SubSeq(files, 1, Len(files) - 1)), files[Len(files)])

is_eligible(f) == f.size > 0 /\ f.size <= max_file_size_bytes

\* the loop of lines 106-115: break at the file cap, continue over a file
\* that does not fit the byte cap
RECURSIVE select_loop(_, _, _, _)
select_loop(eligible, i, selected, selected_bytes) ==
    IF i > Len(eligible) THEN selected
    ELSE IF Len(selected) >= max_index_files THEN selected
    ELSE IF selected_bytes + eligible[i].size > max_index_total_bytes
    THEN select_loop(eligible, i + 1, selected, selected_bytes)
    ELSE select_loop(eligible, i + 1, Append(selected, eligible[i]),
                     selected_bytes + eligible[i].size)

sorted_eligible(files) == SortByPriority(SelectSeq(files, is_eligible))

_select_files_for_index(files) ==
    LET eligible == sorted_eligible(files)
        selected == select_loop(eligible, 1, <<>>, 0)
    IN  IF selected = <<>> /\ eligible # <<>> THEN <<eligible[1]>> ELSE selected

NoSelection == <<[language |-> "none", depth |-> 0, size |-> 0]>>

\* index_repo hands the listing of a repository to _select_files_for_index
SelectFiles ==
    /\ selected_files = NoSelection
    /\ selected_files' = _select_files_for_index(listed_files)
    /\ UNCHANGED <<repos, registry_file, use_persistent_index, index_meta, store_file, ipc,
                   irun, iret, embedding_service, collection, listed_files>>

\* EmbeddingService: the dimensions it declares per provider
OLLAMA_DIM == 384
OLLAMA_DIM_NOMIC == 768
GEMINI_DIM == 768
OPENAI_DIM == 1536

OllamaEmbedModels == {"all-minilm", "nomic-embed-text", "other"}

\* EmbeddingService.__init__: the provider and self.dimension, with the
\* Gemini key of the settings that embed_batch reads again
NewEmbeddingService(ollama_available, ollama_embed_model, gemini_api_key, openai_api_key) ==
    IF ollama_available
    THEN [provider |-> "ollama",
          dimension |-> CASE ollama_embed_model = "all-minilm" -> 384
                          [] ollama_embed_model = "nomic-embed-text" -> OLLAMA_DIM_NOMIC
                          [] OTHER -> OLLAMA_DIM,
          gemini_api_key |-> gemini_api_key]
    ELSE IF gemini_api_key
    THEN [provider |-> "gemini", dimension |-> GEMINI_DIM, gemini_api_key |-> TRUE]
    ELSE IF openai_api_key
    THEN [provider |-> "openai", dimension |-> OPENAI_DIM, gemini_api_key |-> FALSE]
    ELSE [provider |-> "mock", dimension |-> GEMINI_DIM, gemini_api_key |-> FALSE]

EmbeddingServices ==
    {NewEmbeddingService(o, m, g, k) :
        o \in BOOLEAN, m \in OllamaEmbedModels, g \in BOOLEAN, k \in BOOLEAN}

MockEmbeddingService == NewEmbeddingService(FALSE, "other", FALSE, FALSE)

\* what embed_batch answers: vectors of one dimension, or it raises
Vectors(dim) == [kind |-> "vectors", dim |-> dim]
EmbedRaised == [kind |-> "raised", dim |-> 0]

\* the dimension of the vectors a provider answers with: that of the model
\* for Ollama and the APIs, self.dimension for the mock
provider_dim(service, provider) ==
    CASE provider = "gemini" -> GEMINI_DIM
      [] provider = "openai" -> OPENAI_DIM
      [] OTHER -> service.dimension

\* embed_batch: the provider, then Gemini if the provider is Ollama and a key
\* is set, then the mock
embed_batch(service, primary_ok, gemini_ok, mock_ok) ==
    IF primary_ok THEN Vectors(provider_dim(service, service.provider))
    ELSE IF service.provider = "ollama" /\ service.gemini_api_key /\ gemini_ok
    THEN Vectors(GEMINI_DIM)
    ELSE IF mock_ok THEN Vectors(service.dimension)
    ELSE EmbedRaised

\* the answers of embed_batch, over the calls of providers that raise
EmbedAnswers(service) ==
    {embed_batch(service, primary_ok, gemini_ok, mock_ok) :
        primary_ok \in BOOLEAN, gemini_ok \in BOOLEAN, mock_ok \in BOOLEAN}

\* a collection as create_collection makes it, and collection.add of a batch
EmptyCollection == [dims |-> {}]

collection_add(c, dim) == [dims |-> c.dims \cup {dim}]

\* the sidecar _index_meta.json of a store
MetaAbsent == [kind |-> "absent", commit_hash |-> 0, chunk_count |-> 0]
MetaCorrupt == [kind |-> "corrupt", commit_hash |-> 0, chunk_count |-> 0]
MetaOk(commit_hash, chunk_count) ==
    [kind |-> "ok", commit_hash |-> commit_hash, chunk_count |-> chunk_count]
NoMeta == [kind |-> "none", commit_hash |-> 0, chunk_count |-> 0]

read_index_meta(file) == IF file.kind = "ok" THEN file ELSE NoMeta

write_index_meta(file, commit_hash, chunk_count, w) ==
    CASE w = "ok" -> MetaOk(commit_hash, chunk_count)
      [] w = "failed" -> file
      [] OTHER -> MetaCorrupt

is_index_fresh_forced(repo_info, file, store, force) ==
    LET meta == read_index_meta(file) IN
    IF meta.kind = "none" THEN FALSE
    ELSE IF meta.commit_hash # repo_info["commit_hash"] THEN FALSE
    ELSE IF ~store THEN FALSE
    ELSE TRUE

is_index_fresh(repo_info, file, store, force) ==
    IF force THEN FALSE
    ELSE LET meta == read_index_meta(file) IN
         IF meta.kind = "none" THEN FALSE
         ELSE IF meta.commit_hash # repo_info["commit_hash"] THEN FALSE
         ELSE IF ~store THEN FALSE
         ELSE TRUE

\* what a call (or the route in front of it) answers
IndexReturn(kind, chunk_count, from_cache) ==
    [kind |-> kind, chunk_count |-> chunk_count, from_cache |-> from_cache]
NoReturn == IndexReturn("none", 0, FALSE)
IndexReturned(chunk_count, from_cache) == IndexReturn("returned", chunk_count, from_cache)
RaisedReturn == IndexReturn("raised", 0, FALSE)
NotFound == IndexReturn("not_found", 0, FALSE)
AlreadyIndexed(chunk_count) == IndexReturn("already_indexed", chunk_count, FALSE)

\* the locals of a call, and the calls it has made of the embedder
\* (embed_calls) and of delete_collection and create_collection (collection_ops)
NewRun(repo_id, force) ==
    [repo_id |-> repo_id, force |-> force, files |-> 0, read |-> 0,
     contents |-> 0, chunks |-> 0, processed |-> 0, embed_calls |-> 0,
     collection_ops |-> 0]

\* the start transition without indexed = False
StartUpdatesKeepIndexed ==
    "is_indexing" :> TRUE @@ "index_progress_pct" :> 1
    @@ "index_processed_chunks" :> 0 @@ "index_total_chunks" :> 0 @@ "chunk_count" :> 0

StartUpdates ==
    "is_indexing" :> TRUE @@ "indexed" :> FALSE @@ "index_progress_pct" :> 1
    @@ "index_processed_chunks" :> 0 @@ "index_total_chunks" :> 0 @@ "chunk_count" :> 0

DoneUpdates(chunk_count, total_chunks) ==
    "is_indexing" :> FALSE @@ "indexed" :> TRUE @@ "index_progress_pct" :> 100
    @@ "chunk_count" :> chunk_count @@ "index_processed_chunks" :> chunk_count
    @@ "index_total_chunks" :> total_chunks

\* except Exception: update_repo(repo_id, persist=True, is_indexing=False); raise
on_exception(s, w) ==
    [update_repo(s, s.run.repo_id, TRUE, "is_indexing" :> FALSE, w)
        EXCEPT !.pc = "idle", !.ret = RaisedReturn]

\* the start transition, up to the await of list_files
index_repo_start(s, w) ==
    IF ~has_repo(s.repos, s.run.repo_id)
    THEN [s EXCEPT !.pc = "idle", !.ret = RaisedReturn]
    ELSE [update_repo(s, s.run.repo_id, TRUE, StartUpdates, w) EXCEPT !.pc = "list"]

\* nothing to index: no file selected, or no chunk made
return_empty(s, w) ==
    [update_repo(s, s.run.repo_id, TRUE, DoneUpdates(0, 0), w)
        EXCEPT !.pc = "idle", !.ret = IndexReturned(0, FALSE)]

\* list_files has answered: the selection, then the first batch of reads
after_list(s, ok, n, w) ==
    IF ~ok THEN on_exception(s, w)
    ELSE IF n = 0 THEN return_empty(s, w)
    ELSE [s EXCEPT !.run.files = n, !.pc = "read"]

\* a batch of reads is over (got of them gave content): progress, then the
\* next batch, or the end of the loop and the await of the chunker
after_read(s, got, timed_out) ==
    LET read == s.run.read + Min(file_read_concurrency, s.run.files - s.run.read)
        contents == s.run.contents + got
        s1 == update_repo([s EXCEPT !.run.read = read, !.run.contents = contents],
                          s.run.repo_id, FALSE,
                          "index_progress_pct" :> Min(10, 2 + (read * 8) \div s.run.files),
                          "ok")
    IN  IF read >= s.run.files \/ (timed_out /\ contents > 0)
        THEN [update_repo(s1, s.run.repo_id, FALSE, "index_progress_pct" :> 10, "ok")
                 EXCEPT !.pc = "chunk"]
        ELSE s1

db_path_exists(s) == s.store[s.run.repo_id] \/ s.meta[s.run.repo_id].kind # "absent"

\* step 4 after the store directory is out of the way, and the first embed call
prepare_chromadb(s, outcome, w) ==
    IF outcome = "client_error" THEN on_exception(s, w)
    ELSE LET s1 == [s EXCEPT !.store[s.run.repo_id] = IF use_persistent_index THEN TRUE ELSE @,
                             !.run.collection_ops = @ + 1]
         IN  IF outcome = "create_error" THEN on_exception(s1, w)
             ELSE [update_repo([s1 EXCEPT !.run.collection_ops = @ + 1,
                                          !.collection[s.run.repo_id] = EmptyCollection],
                               s.run.repo_id, FALSE,
                               "index_total_chunks" :> s.run.chunks
                               @@ "index_processed_chunks" :> 0
                               @@ "index_progress_pct" :> 15, "ok")
                      EXCEPT !.pc = "embed"]

PrepareOutcomes == {"ok", "client_error", "create_error"}

\* the chunker has answered: the cap, then step 4 unless rmtree is awaited
after_chunk(s, ok, produced, outcome, w) ==
    LET chunks == Min(produced, max_chunks) IN
    IF ~ok THEN on_exception(s, w)
    ELSE IF chunks = 0 THEN return_empty(s, w)
    ELSE LET s1 == [s EXCEPT !.run.chunks = chunks] IN
         IF use_persistent_index /\ db_path_exists(s1)
         THEN [s1 EXCEPT !.pc = "prepare"]
         ELSE prepare_chromadb(s1, outcome, w)

\* shutil.rmtree(db_path, ignore_errors=True) is over
after_rmtree(s, removed, outcome, w) ==
    prepare_chromadb(IF removed
                     THEN [s EXCEPT !.store[s.run.repo_id] = FALSE,
                                    !.meta[s.run.repo_id] = MetaAbsent]
                     ELSE s,
                     outcome, w)

\* lines 296-305 of a batch: embed_batch answers or raises, collection.add
\* takes the vectors or raises
embed_outcome(vectors, add_ok) ==
    IF vectors.kind = "raised" THEN "embed_error"
    ELSE IF ~add_ok THEN "add_error"
    ELSE "ok"

\* the state after collection.add has taken the batch
added(s, vectors) ==
    [s EXCEPT !.collection[s.run.repo_id] = collection_add(@, vectors.dim)]

\* a batch is embedded and added: progress, then the next batch, or the end
\* of the loop (pc "final")
after_embed(s, outcome, timed_out, w) ==
    LET s0 == [s EXCEPT !.run.embed_calls = @ + 1] IN
    IF outcome # "ok" THEN on_exception(s0, w)
    ELSE LET processed == s.run.processed + Min(batch_size, s.run.chunks - s.run.processed)
             s1 == update_repo([s0 EXCEPT !.run.processed = processed],
                               s.run.repo_id, FALSE,
                               "index_processed_chunks" :> processed
                               @@ "index_progress_pct" :>
                                      Min(99, 15 + (processed * 84) \div s.run.chunks),
                               "ok")
         IN  IF processed >= s.run.chunks \/ timed_out
             THEN [s1 EXCEPT !.pc = "final"]
             ELSE s1

\* step 6 with the number of chunks planned as final_chunk_count
finalize_planned(s, w) ==
    LET n == s.run.chunks
        s1 == update_repo(s, s.run.repo_id, FALSE, "indexed" :> TRUE @@ "chunk_count" :> n,
                          "ok")
    IN  update_repo(s1, s.run.repo_id, TRUE, DoneUpdates(n, s.run.chunks), w)

\* step 6: the record is completed and persisted
finalize(s, w) ==
    LET n == s.run.processed
        s1 == update_repo(s, s.run.repo_id, FALSE, "indexed" :> TRUE @@ "chunk_count" :> n,
                          "ok")
    IN  update_repo(s1, s.run.repo_id, TRUE, DoneUpdates(n, s.run.chunks), w)

\* step 6 and the return of the backend's index_repo
index_repo_final(s, w) ==
    [finalize(s, w) EXCEPT !.pc = "idle", !.ret = IndexReturned(s.run.processed, FALSE)]

\* step 6 of the website's index_repo, the sidecar, and the return
windex_repo_final(s, w, mw) ==
    LET s1 == finalize(s, w)
        id == s.run.repo_id
    IN  IF ~use_persistent_index
        THEN [s1 EXCEPT !.pc = "idle", !.ret = IndexReturned(s.run.processed, FALSE)]
        ELSE LET s2 == [s1 EXCEPT !.meta[id] =
                            write_index_meta(@, s1.repos[id]["commit_hash"],
                                             s.run.processed, mw)]
             IN  IF mw = "ok"
                 THEN [s2 EXCEPT !.pc = "idle", !.ret = IndexReturned(s.run.processed, FALSE)]
                 ELSE on_exception(s2, w)

\* the website's index_repo up to its first await: the freshness shortcut,
\* or the start transition
windex_repo_start(s, w) ==
    LET id == s.run.repo_id IN
    IF ~has_repo(s.repos, id)
    THEN [s EXCEPT !.pc = "idle", !.ret = RaisedReturn]
    ELSE IF use_persistent_index
            /\ is_index_fresh(get_repo(s.repos, id), s.meta[id], s.store[id], s.run.force)
    THEN LET cached_chunks == read_index_meta(s.meta[id]).chunk_count IN
         [update_repo(s, id, TRUE, DoneUpdates(cached_chunks, cached_chunks), w)
             EXCEPT !.pc = "idle", !.ret = IndexReturned(cached_chunks, TRUE)]
    ELSE index_repo_start(s, w)

\* POST /repo/index
index_repository(s, w) ==
    LET id == s.run.repo_id IN
    IF ~has_repo(s.repos, id)
    THEN [s EXCEPT !.pc = "idle", !.ret = NotFound]
    ELSE IF get_repo(s.repos, id)["indexed"] /\ ~s.run.force
    THEN [s EXCEPT !.pc = "idle", !.ret = AlreadyIndexed(get_repo(s.repos, id)["chunk_count"])]
    ELSE index_repo_start(s, w)

IState(r) ==
    [repos |-> repos, registry |-> registry_file, meta |-> index_meta, store |-> store_file,
     collection |-> collection, run |-> irun[r], pc |-> ipc[r], ret |-> iret[r]]

\* the locals of a call that is over are gone; the counts of its calls and
\* the total_chunks it logged stay
Ended(run) ==
    [NewRun(run.repo_id, run.force) EXCEPT !.embed_calls = run.embed_calls,
                                           !.collection_ops = run.collection_ops,
                                           !.chunks = run.chunks]

Commit(r, s) ==
    /\ repos' = s.repos
    /\ registry_file' = s.registry
    /\ index_meta' = s.meta
    /\ store_file' = s.store
    /\ irun' = [irun EXCEPT ![r] = IF s.pc = "idle" THEN Ended(s.run) ELSE s.run]
    /\ ipc' = [ipc EXCEPT ![r] = s.pc]
    /\ iret' = [iret EXCEPT ![r] = s.ret]
    /\ collection' = s.collection
    /\ UNCHANGED <<use_persistent_index, embedding_service, listed_files, selected_files>>

Called(r, repo_id, force) ==
    [IState(r) EXCEPT !.run = NewRun(repo_id, force), !.ret = NoReturn]

\* a POST /repo/index request arrives and runs up to its first await
IndexRequest(r, repo_id, force) ==
    /\ ipc[r] = "idle"
    /\ \E w \in WriteOutcomes : Commit(r, index_repository(Called(r, repo_id, force), w))

\* the website's index_repo(repo_id, force) is called and runs up to its first await
WIndexRepo(r, repo_id, force) ==
    /\ ipc[r] = "idle"
    /\ \E w \in WriteOutcomes : Commit(r, windex_repo_start(Called(r, repo_id, force), w))

IndexList(r) ==
    /\ ipc[r] = "list"
    /\ \E ok \in BOOLEAN, n \in 0..MaxFiles, w \in WriteOutcomes :
         Commit(r, after_list(IState(r), ok, n, w))

IndexRead(r) ==
    /\ ipc[r] = "read"
    /\ \E got \in 0..Min(file_read_concurrency, irun[r].files - irun[r].read),
          timed_out \in BOOLEAN :
         Commit(r, after_read(IState(r), got, timed_out))

IndexChunk(r) ==
    /\ ipc[r] = "chunk"
    /\ \E ok \in BOOLEAN, outcome \in PrepareOutcomes, w \in WriteOutcomes :
       \E produced \in 0..(IF irun[r].contents = 0 THEN 0 ELSE MaxProduced) :
         Commit(r, after_chunk(IState(r), ok, produced, outcome, w))

IndexPrepare(r) ==
    /\ ipc[r] = "prepare"
    /\ \E removed \in BOOLEAN, outcome \in PrepareOutcomes, w \in WriteOutcomes :
         Commit(r, after_rmtree(IState(r), removed, outcome, w))

IndexEmbed(r) ==
    /\ ipc[r] = "embed"
    /\ \E vectors \in EmbedAnswers(embedding_service), add_ok, timed_out \in BOOLEAN,
          w \in WriteOutcomes :
         LET outcome == embed_outcome(vectors, add_ok)
             s0 == IF outcome = "ok" THEN added(IState(r), vectors) ELSE IState(r)
             s == after_embed(s0, outcome, timed_out, w)
         IN  Commit(r, IF s.pc = "final" THEN index_repo_final(s, w) ELSE s)

WIndexEmbed(r) ==
    /\ ipc[r] = "embed"
    /\ \E vectors \in EmbedAnswers(embedding_service), add_ok, timed_out \in BOOLEAN,
          w, mw \in WriteOutcomes :
         LET outcome == embed_outcome(vectors, add_ok)
             s0 == IF outcome = "ok" THEN added(IState(r), vectors) ELSE IState(r)
             s == after_embed(s0, outcome, timed_out, w)
         IN  Commit(r, IF s.pc = "final" THEN windex_repo_final(s, w, mw) ELSE s)

(***************************************************************************)
(* CodeEvaluator (app/services/evaluator.py).  A diff is the kind of text  *)
(* its body strips to; a reviewer answers with a verdict or raises (a      *)
(* failed or timed-out request, an unparseable answer); the controller's   *)
(* answer is the parsed JSON object or an exception.                       *)
(***************************************************************************)
DiffKinds == {"code", "blank", "notdict"}

MaxDiffs == 2

\* _build_code_bundle: the parts kept, one for each dict with a non-blank body
_build_code_bundle(generated_diffs) ==
    SelectSeq(generated_diffs, LAMBDA d : d = "code")

\* _normalize_score: the number clamped to 0..10
_normalize_score(score) == IF score < 0 THEN 0 ELSE IF score > 10 THEN 10 ELSE score

RawScores == {-1, 3, 6, 9, 12}

NoReview == [kind |-> "none"]
ReviewRaised == [kind |-> "error"]
ReviewerVerdict(provider, score) ==
    [kind |-> "verdict", provider |-> provider, score |-> _normalize_score(score)]

\* what awaiting _run_reviewer can give
ReviewerOutcomes(provider) ==
    {ReviewerVerdict(provider, sc) : sc \in RawScores} \cup {ReviewRaised}

\* critic_res if isinstance(critic_res, ReviewerVerdict) else None
verdict_or_none(res) == IF res.kind = "verdict" THEN res ELSE NoReview

\* The decision the controller model wrote, as the words of the text after
\* strip, upper and the replacement of blanks by underscores.
DecisionWords ==
    {<<"ACCEPT", "ORIGINAL">>, <<"MERGE", "FEEDBACK">>, <<"REQUEST", "REVISION">>,
     <<"ACCEPT">>, <<"PLEASE", "MERGE">>, <<"FEEDBACK">>, <<"REJECT">>, <<"REVISE">>,
     <<"UNSURE">>, <<>>}

Join(ws) ==
    IF ws = <<"ACCEPT", "ORIGINAL">> THEN "ACCEPT_ORIGINAL"
    ELSE IF ws = <<"MERGE", "FEEDBACK">> THEN "MERGE_FEEDBACK"
    ELSE IF ws = <<"REQUEST", "REVISION">> THEN "REQUEST_REVISION"
    ELSE IF ws = <<>> THEN ""
    ELSE "OTHER"

Decisions == {"ACCEPT_ORIGINAL", "MERGE_FEEDBACK", "REQUEST_REVISION"}

\* (mutation) a decision that is not one of the three is passed on as written
_normalize_decision_exact(ws) == Join(ws)

\* _normalize_decision
_normalize_decision(ws) ==
    IF Join(ws) \in Decisions THEN Join(ws)
    ELSE IF InSeq("ACCEPT", ws) THEN "ACCEPT_ORIGINAL"
    ELSE IF InSeq("MERGE", ws) \/ InSeq("FEEDBACK", ws) THEN "MERGE_FEEDBACK"
    ELSE IF InSeq("REVISE", ws) \/ InSeq("REJECT", ws) THEN "REQUEST_REVISION"
    ELSE "MERGE_FEEDBACK"

\* improved_code_by_file, each item by what the validation loop sees in it
ImprovedLists == {<<>>, <<"code">>, <<"placeholder">>, <<"short", "code">>, <<"prose", "notdict">>}

validated_improved(improved_code) == SelectSeq(improved_code, LAMBDA it : it = "code")

ControllerRaised == [kind |-> "error"]
ControllerData(ws, improved) == [kind |-> "data", decision |-> ws, improved |-> improved]

\* what chat_completion and _parse_json_response give the controller; an
\* improved_code_by_file that is not a list is read as the empty list
ControllerOutcomes ==
    {ControllerData(ws, imp) : ws \in DecisionWords, imp \in ImprovedLists}
        \cup {ControllerRaised}

ControllerVerdict(decision, final_score, improved) ==
    [decision |-> decision, final_score |-> final_score, improved_code_by_file |-> improved]

\* _fallback_controller; final_score is kept as the sum and the number of
\* the scores, the average being compared with 8.0 and 5.0
_fallback_controller(critic, defender) ==
    LET scores == SelectSeq(<<critic, defender>>, LAMBDA r : r.kind = "verdict")
        total == IF Len(scores) = 0 THEN 0
                 ELSE IF Len(scores) = 1 THEN scores[1].score
                 ELSE scores[1].score + scores[2].score
        n == IF Len(scores) = 0 THEN 1 ELSE Len(scores)
        decision == IF total >= 8 * n THEN "ACCEPT_ORIGINAL"
                    ELSE IF total >= 5 * n THEN "MERGE_FEEDBACK"
                    ELSE "REQUEST_REVISION"
    IN  ControllerVerdict(decision, <<total, n>>, <<>>)

\* _run_controller
_run_controller(critic, defender, out) ==
    IF out.kind = "error" THEN _fallback_controller(critic, defender)
    ELSE LET decision == _normalize_decision(out.decision)
             valid == validated_improved(out.improved)
         IN  ControllerVerdict(
                 IF decision = "MERGE_FEEDBACK" /\ valid = <<>>
                 THEN "ACCEPT_ORIGINAL" ELSE decision,
                 <<0, 1>>, valid)

NoEvaluation == [kind |-> "none"]

LLMVsLLMResult(enabled, critic, defender, controller) ==
    [kind |-> "result", enabled |-> enabled, critic |-> critic, defender |-> defender,
     controller |-> controller]

_disabled_result == LLMVsLLMResult(FALSE, NoReview, NoReview,
                                   ControllerVerdict("REQUEST_REVISION", <<0, 1>>, <<>>))

\* evaluate_generation up to the gather: the call with an empty bundle
\* returns at once
EvalCall(diffs) ==
    /\ epc = "idle"
    /\ ediffs' = diffs
    /\ ecritic' = NoReview
    /\ edefender' = NoReview
    /\ IF _build_code_bundle(diffs) = <<>>
       THEN epc' = "idle" /\ eresult' = _disabled_result
       ELSE epc' = "reviewing" /\ eresult' = NoEvaluation

\* the gather of the two reviewers, return_exceptions=True
EvalReviewed ==
    /\ epc = "reviewing"
    /\ ecritic' \in ReviewerOutcomes("ollama")
    /\ edefender' \in ReviewerOutcomes("ollama_b")
    /\ epc' = "controlling"
    /\ UNCHANGED <<ediffs, eresult>>

\* the awaited _run_controller and the return
EvalControlled ==
    /\ epc = "controlling"
    /\ \E out \in ControllerOutcomes :
         LET critic == verdict_or_none(ecritic)
             defender == verdict_or_none(edefender)
         IN  eresult' = LLMVsLLMResult(TRUE, critic, defender,
                                       _run_controller(critic, defender, out))
    /\ epc' = "idle"
    /\ UNCHANGED <<ediffs, ecritic, edefender>>

(***************************************************************************)
(* Generator.generate (app/services/generator.py), Answerer.answer         *)
(* (app/services/answerer.py) and TestGenerator.generate_tests             *)
(* (app/services/test_generator.py).  A call is followed through its       *)
(* awaits: the retrievals, then the chat completion; each step answers or  *)
(* raises.  A returned object is kept as the error text it shows, if any.  *)
(***************************************************************************)
NoAgentCall == [fn |-> "none", arg |-> "none"]
NoAgentReturn == [kind |-> "none"]

\* the object returned; error names the failure whose text is in one of its
\* fields ("none": no error text anywhere in it)
AgentReturned(fn, error, success) ==
    [kind |-> "returned", fn |-> fn, error |-> error, success |-> success]

\* the exception left the function
AgentRaised(fn, step) == [kind |-> "raised", fn |-> fn, step |-> step]

\* the calls made: generate(request), answer(query, chunks) with or without
\* chunks, generate_tests with generated_code absent, holding entries without
\* content only, or holding an entry with content
AgentCalls ==
    {[fn |-> "generate", arg |-> "request"],
     [fn |-> "answer", arg |-> "chunks"], [fn |-> "answer", arg |-> "no_chunks"],
     [fn |-> "generate_tests", arg |-> "no_code"],
     [fn |-> "generate_tests", arg |-> "code_without_content"],
     [fn |-> "generate_tests", arg |-> "code_with_content"]}

\* retriever.retrieve has no handler of its own: it returns chunks, returns
\* [] or raises what the embedding service or the collection raised
RetrieveOutcomes == {"chunks", "empty", "raised"}

\* llm.chat_completion and the parsing of its text
CompletionOutcomes == {"parsed", "unparsable", "raised"}

\* _generate_template_tests
TemplateOutcomes == {"text", "empty", "raised"}

\* the part of a call before its first await
agent_call(c) ==
    IF c.fn = "generate" THEN [pc |-> "retrieve", failed |-> "none", ret |-> NoAgentReturn]
    ELSE IF c.fn = "answer"
    THEN IF c.arg = "no_chunks"
         THEN [pc |-> "idle", failed |-> "none", ret |-> AgentReturned("answer", "none", TRUE)]
         ELSE [pc |-> "complete", failed |-> "none", ret |-> NoAgentReturn]
    ELSE IF c.arg = "code_with_content"
         \* Chunk(id=..., file_path=..., ...) lacks the required metadata
         THEN [pc |-> "idle", failed |-> "chunk",
               ret |-> AgentRaised("generate_tests", "chunk")]
         ELSE IF c.arg = "code_without_content"
         THEN [pc |-> "retrieve_tests", failed |-> "none", ret |-> NoAgentReturn]
         ELSE [pc |-> "retrieve", failed |-> "none", ret |-> NoAgentReturn]

\* chunks = await retriever.retrieve(...), outside every try
after_retrieve(c, pc, out) ==
    IF out = "raised"
    THEN [pc |-> "idle", failed |-> "retrieval", ret |-> AgentRaised(c.fn, "retrieval")]
    ELSE IF c.fn = "generate"
    THEN IF out = "empty"
         THEN [pc |-> "idle", failed |-> "none", ret |-> AgentReturned("generate", "none", TRUE)]
         ELSE [pc |-> "complete", failed |-> "none", ret |-> NoAgentReturn]
    ELSE IF pc = "retrieve"
         THEN [pc |-> "retrieve_tests", failed |-> "none", ret |-> NoAgentReturn]
         ELSE [pc |-> "complete", failed |-> "none", ret |-> NoAgentReturn]

\* the try block around chat_completion and its handler
after_completion(c, out, template) ==
    LET done(failed, error, success) ==
            [pc |-> "idle", failed |-> failed, ret |-> AgentReturned(c.fn, error, success)]
    IN  IF c.fn = "generate"
        THEN IF out = "raised" THEN done("llm", "llm", TRUE)        \* plan = "Error analyzing code: ..."
             ELSE IF out = "unparsable" THEN done("parse", "parse", TRUE)  \* "Error parsing plan"
             ELSE done("none", "none", TRUE)
        ELSE IF c.fn = "answer"
        THEN IF out = "raised" THEN done("llm", "llm", TRUE)        \* assumptions = [str(e)]
             ELSE IF out = "unparsable" THEN done("parse", "none", TRUE)   \* data = {}
             ELSE done("none", "none", TRUE)
        ELSE IF out = "raised"
             THEN IF template = "text" THEN done("llm", "none", TRUE)
                  ELSE done("llm", "llm", FALSE)
             ELSE IF out = "unparsable" THEN done("parse", "none", TRUE)
             ELSE done("none", "none", TRUE)

AgentCall(c) ==
    /\ apc = "idle"
    /\ acall' = c
    /\ LET s == agent_call(c) IN
       /\ apc' = s.pc
       /\ afailed' = s.failed
       /\ aret' = IF s.pc = "idle" THEN s.ret ELSE aret

AgentRetrieved ==
    /\ apc \in {"retrieve", "retrieve_tests"}
    /\ \E out \in RetrieveOutcomes :
         LET s == after_retrieve(acall, apc, out) IN
         /\ apc' = s.pc
         /\ afailed' = s.failed
         /\ aret' = IF s.pc = "idle" THEN s.ret ELSE aret
    /\ UNCHANGED acall

AgentCompleted ==
    /\ apc = "complete"
    /\ \E out \in CompletionOutcomes, template \in TemplateOutcomes :
         LET s == after_completion(acall, out, template) IN
         /\ apc' = s.pc
         /\ afailed' = s.failed
         /\ aret' = s.ret
    /\ UNCHANGED acall

(***************************************************************************)
(* RefinementLoop.run_refinement (app/services/refinement_loop.py).  The   *)
(* code and the tests are texts numbered in the order they are produced,   *)
(* 0 being the empty text; an entry of the log is its iteration number,    *)
(* tests_passed and the output of its pytest run.                          *)
(***************************************************************************)
MAX_ITERATIONS == 4

NoRefinement == [kind |-> "none"]

NoIteration == [iteration |-> 0]

\* what _run_pytest prints: the outcome of the given tests on the given code
pytest_output(code, tests, passed) == [code |-> code, tests |-> tests, passed |-> passed]

NoOutput == [code |-> 0, tests |-> 0, passed |-> FALSE]

\* tests_snippet is kept as "is non-empty", refinement_action as its kind
IterationResult(i, code, tests, passed) ==
    [iteration |-> i, tests_snippet |-> tests # 0, tests_passed |-> passed,
     test_output |-> pytest_output(code, tests, passed), refinement_action |-> ""]

\* final_passed = iteration_log[-1].tests_passed if iteration_log else False
final_passed(log) == IF log = <<>> THEN FALSE ELSE log[Len(log)].tests_passed

RefinementResult(log, code, tests) ==
    [kind |-> "result", success |-> final_passed(log), total_iterations |-> Len(log),
     final_code |-> code, final_tests |-> tests, iteration_log |-> log,
     final_test_output |-> IF log = <<>> THEN NoOutput ELSE log[Len(log)].test_output]

RefinementRaised == [kind |-> "raised"]

\* (mutation) a passing run does not leave the loop
leaves_loop_never(passed) == FALSE

\* if passed: ... break
leaves_loop(passed) == passed

\* what _refine returns: the parsed object of the reply (fix_target "code"
\* or anything else, fixed text present or not), the handler's dict that
\* keeps the tests, or parsed JSON that is not an object
RefineOutcomes ==
    {[kind |-> "fix", target |-> t, fixed |-> f] : t \in {"code", "tests"}, f \in BOOLEAN}
        \cup {[kind |-> "keep_tests"], [kind |-> "not_an_object"]}

RefineStart ==
    /\ fpc = "idle"
    /\ fpc' = "generate"
    /\ fi' = 1
    /\ current_code' = 0
    /\ current_tests' = 0
    /\ iteration_log' = <<>>
    /\ iteration' = NoIteration
    /\ fruns' = 0
    /\ fres' = NoRefinement

\* Step 1, first iteration only: generator.generate inside try
RefineGenerate ==
    /\ fpc = "generate"
    /\ \E out \in {"code", "raised"} :
         IF out = "raised"
         THEN /\ fres' = RefinementResult(<<>>, 0, 0)
              /\ fpc' = "idle"
              /\ UNCHANGED current_code
         ELSE /\ current_code' = 1         \* the joined parts, or gen_result.plan
              /\ fpc' = "tests"
              /\ UNCHANGED fres
    /\ UNCHANGED <<fi, current_tests, iteration_log, iteration, fruns>>

\* Step 2, when i == 1 or current_tests is empty: generate_tests inside try
RefineTests ==
    /\ fpc = "tests"
    /\ \E out \in {"tests", "empty", "raised"} :
         current_tests' = IF out = "tests" THEN 1 ELSE 0
    /\ fpc' = "pytest"
    /\ UNCHANGED <<fi, current_code, iteration_log, iteration, fruns, fres>>

\* Step 3: _run_pytest; a passing run closes the log and returns
RefinePytest ==
    /\ fpc = "pytest"
    /\ fruns' = fruns + 1
    /\ \E out \in {"passed", "failed", "raised"} :
         IF out = "raised"                 \* mkdtemp or the writes of the files
         THEN /\ fres' = RefinementRaised
              /\ fpc' = "idle"
              /\ UNCHANGED <<iteration_log, iteration>>
         ELSE LET it == IterationResult(fi, current_code, current_tests, out = "passed") IN
              IF leaves_loop(out = "passed")
              THEN /\ iteration' = [it EXCEPT !.refinement_action = "passed"]
                   /\ iteration_log' = Append(iteration_log, iteration')
                   /\ fres' = RefinementResult(iteration_log', current_code, current_tests)
                   /\ fpc' = "idle"
              ELSE /\ iteration' = it
                   /\ fpc' = "refine"
                   /\ UNCHANGED <<iteration_log, fres>>
    /\ UNCHANGED <<fi, current_code, current_tests>>

\* Step 4: _refine, the update of the code or the tests, the entry of the
\* log, and the loop's next i
RefineFix ==
    /\ fpc = "refine"
    /\ \E refined \in RefineOutcomes :
         IF refined.kind = "not_an_object"          \* refined.get raises
         THEN /\ fres' = RefinementRaised
              /\ fpc' = "idle"
              /\ UNCHANGED <<fi, current_code, current_tests, iteration_log, iteration>>
         ELSE LET code == refined.kind = "fix" /\ refined.target = "code" IN
              /\ current_code' = IF code /\ refined.fixed
                                  THEN current_code + 1 ELSE current_code
              /\ current_tests' =
                     IF refined.kind = "fix" /\ ~code /\ refined.fixed
                     THEN current_tests + 1 ELSE current_tests
              /\ iteration' = [iteration EXCEPT !.refinement_action =
                                                    IF code THEN "code" ELSE "tests"]
              /\ iteration_log' = Append(iteration_log, iteration')
              /\ IF fi = MAX_ITERATIONS
                 THEN /\ fres' = RefinementResult(iteration_log', current_code',
                                                  current_tests')
                      /\ fpc' = "idle"
                      /\ UNCHANGED fi
                 ELSE /\ fi' = fi + 1
                      /\ fpc' = IF current_tests' # 0 THEN "pytest" ELSE "tests"
                      /\ UNCHANGED fres
    /\ UNCHANGED fruns

(***************************************************************************)
(* The registry of RepoManager (app/services/repo_manager.py):             *)
(* _save_registry and _load_registry.  The file lists its records in the   *)
(* order RegOrder; loaded_at is a datetime in the process and text in the  *)
(* file.                                                                   *)
(***************************************************************************)
RegOrder == <<"r1", "r2">>

RegIds == {RegOrder[i] : i \in 1..Len(RegOrder)}

LocalPath(id) == <<"data", id>>

MaxChunkCount == 1

\* a record as load_repo creates it: the fields RepoInfo declares
LoadedRepoInfo(id) ==
    ("local_path" :> LocalPath(id)) @@ ("loaded_at" :> [datetime |-> 1])
        @@ ("indexed" :> FALSE) @@ ("chunk_count" :> 0)

\* info.model_dump() written by json.dumps(..., default=str)
dump_info(rec) ==
    IF "missing" \in DOMAIN rec THEN rec
    ELSE [k \in DOMAIN rec |-> IF k = "loaded_at" THEN [text |-> rec[k].datetime] ELSE rec[k]]

\* RepoInfo(**info): the text of loaded_at is parsed back
parse_info(info) ==
    [k \in DOMAIN info |-> IF k = "loaded_at" THEN [datetime |-> info[k].text] ELSE info[k]]

\* the assignments of lines 213-218 on a model that declares the fields
\* of rec only: the first assignment to an undeclared field raises
reset_ephemeral(rec) ==
    LET updates == <<"indexed", "chunk_count", "is_indexing", "index_progress_pct",
                     "index_processed_chunks", "index_total_chunks">>
    IN  [raised |-> \E i \in 1..Len(updates) : updates[i] \notin DOMAIN rec,
         rec |-> [rec EXCEPT !["indexed"] = FALSE, !["chunk_count"] = 0]]

\* local_path and Path(local_path).exists()
path_recovered(info, paths) == info["local_path"] \in paths

\* the loop of _load_registry from the i-th entry of the file on; an
\* exception ends it with the records recovered so far
RECURSIVE load_entries(_, _, _, _, _)
load_entries(i, data, paths, persistent, rs) ==
    IF i > Len(RegOrder) THEN rs
    ELSE LET id == RegOrder[i] IN
         IF id \notin DOMAIN data THEN load_entries(i + 1, data, paths, persistent, rs)
         ELSE IF ~path_recovered(data[id], paths)
         THEN load_entries(i + 1, data, paths, persistent, rs)
         ELSE LET repo_info == parse_info(data[id]) IN
              IF ~persistent /\ repo_info["indexed"]
              THEN LET r == reset_ephemeral(repo_info) IN
                   IF r.raised THEN rs
                   ELSE load_entries(i + 1, data, paths, persistent,
                                     [rs EXCEPT ![id] = r.rec])
              ELSE load_entries(i + 1, data, paths, persistent,
                                [rs EXCEPT ![id] = repo_info])

\* _load_registry in a fresh process
load_registry(file, paths, persistent) ==
    IF file.state # "written" THEN [id \in RegIds |-> NoRepo]
    ELSE load_entries(1, file.data, paths, persistent, [id \in RegIds |-> NoRepo])

\* load_repo: the clone is on disk, the record built from the clone is
\* stored under its repo_id, over the record already there, and saved
RegLoadRepo(id) ==
    /\ m_repos' = [m_repos EXCEPT ![id] = LoadedRepoInfo(id)]
    /\ m_paths' = m_paths \cup {LocalPath(id)}
    /\ \E w \in WriteOutcomes :
         m_file' = save_registry([i \in RegIds |-> dump_info(m_repos'[i])], m_file, w)
    /\ m_reloaded' = FALSE
    /\ UNCHANGED m_persistent

\* the indexer's first update_repo(persist=True, is_indexing=True,
\* indexed=False, ...): the keywords the record declares are assigned
RegIndexStart(id) ==
    /\ has_repo(m_repos, id)
    /\ LET rec == m_repos[id]
       IN  m_repos' = [m_repos EXCEPT ![id] =
                         [k \in DOMAIN rec |-> IF k \in DOMAIN StartUpdates
                                               THEN StartUpdates[k] ELSE rec[k]]]
    /\ \E w \in WriteOutcomes :
         m_file' = save_registry([i \in RegIds |-> dump_info(m_repos'[i])], m_file, w)
    /\ m_reloaded' = FALSE
    /\ UNCHANGED <<m_paths, m_persistent>>

\* the indexer's final update_repo(persist=True, indexed=True, chunk_count=n)
RegIndexed(id) ==
    /\ has_repo(m_repos, id)
    /\ ~m_repos[id]["indexed"]
    /\ \E n \in 0..MaxChunkCount :
         m_repos' = [m_repos EXCEPT ![id] =
                        [@ EXCEPT !["indexed"] = TRUE, !["chunk_count"] = n]]
    /\ \E w \in WriteOutcomes :
         m_file' = save_registry([i \in RegIds |-> dump_info(m_repos'[i])], m_file, w)
    /\ m_reloaded' = FALSE
    /\ UNCHANGED <<m_paths, m_persistent>>

\* a clone directory is removed from the disk behind the manager's back
RegPathRemoved(id) ==
    /\ LocalPath(id) \in m_paths
    /\ m_paths' = m_paths \ {LocalPath(id)}
    /\ m_reloaded' = FALSE
    /\ UNCHANGED <<m_repos, m_file, m_persistent>>

\* the process restarts: RepoManager.__init__ runs _load_registry
RegRestart ==
    /\ ~m_reloaded
    /\ m_repos' = load_registry(m_file, m_paths, m_persistent)
    /\ m_reloaded' = TRUE
    /\ UNCHANGED <<m_file, m_paths, m_persistent>>

(***************************************************************************)
(* Cloning: RepoManager._clone_github_repo (app/services/repo_manager.py)  *)
(* and clone_repo (website, app/services/repo_fetcher.py).  The clone      *)
(* subprocess ends with exit status 0, ends with another status (git has   *)
(* removed the directory it made, or has left it: a failed checkout),      *)
(* times out, or cannot be run; a removal succeeds or finds the tree stuck.*)
(***************************************************************************)
MaxClones == 3

SafeRemoveAttempts == 4

NoClone == [kind |-> "none"]
Cloned == [kind |-> "returned"]
CloneError(why) == [kind |-> "raised", why |-> why]

CloneOutcomes == {"exit0", "nonzero_removed", "nonzero_left", "timeout", "oserror"}

\* the call is over: what it answers, and whether its directory is left
clone_done(ret, temp) ==
    /\ cpc' = "idle"
    /\ cret' = ret
    /\ ctemp' = temp
    /\ cattempt' = 0
    /\ cleft' = IF ret.kind = "raised" /\ temp THEN cleft + 1 ELSE cleft

\* cleanup_repo: shutil.rmtree(temp_dir, ignore_errors=True); the value is
\* whether the directory still exists
cleanup_repo(exists, stuck) == exists /\ stuck

CloneStart(site) ==
    /\ cpc = "idle"
    /\ cleft < MaxClones
    /\ csite' = site
    /\ cpc' = "cloning"
    /\ ctemp' = (site = "website")        \* tempfile.mkdtemp; the backend leaves it to git
    /\ cattempt' = 0
    /\ UNCHANGED <<cleft, cret>>

\* _clone_github_repo: the awaited subprocess.run and the handlers
CloneRan ==
    /\ cpc = "cloning"
    /\ csite = "backend"
    /\ \E out \in CloneOutcomes, left \in BOOLEAN :
         IF out = "exit0" THEN clone_done(Cloned, TRUE)
         ELSE IF out = "nonzero_removed" THEN clone_done(CloneError("exit"), FALSE)
         ELSE IF out = "nonzero_left" THEN clone_done(CloneError("exit"), TRUE)
         ELSE \* TimeoutExpired or another exception: _safe_remove_tree(attempts=4)
              IF out = "timeout" /\ left
              THEN /\ cpc' = "removing"
                   /\ ctemp' = TRUE
                   /\ cattempt' = 1
                   /\ UNCHANGED <<cleft, cret>>
              ELSE clone_done(CloneError(out), FALSE)     \* not path.exists(): return
    /\ UNCHANGED csite

\* _safe_remove_tree: one attempt of the loop
CloneRemove ==
    /\ cpc = "removing"
    /\ \E removed \in BOOLEAN :
         IF removed THEN clone_done(CloneError("timeout"), FALSE)
         ELSE IF cattempt < SafeRemoveAttempts
         THEN /\ cattempt' = cattempt + 1
              /\ UNCHANGED <<cpc, ctemp, cleft, cret>>
         ELSE clone_done(CloneError("could not clean"), TRUE)
    /\ UNCHANGED csite

\* clone_repo: the clone (or the archive download), the size check and the
\* handlers, which call cleanup_repo before they raise
WCloneRan ==
    /\ cpc = "cloning"
    /\ csite = "website"
    /\ \E out \in (CloneOutcomes \ {"nonzero_removed"}) \cup {"too_large"}, stuck \in BOOLEAN :
         IF out = "exit0" THEN clone_done(Cloned, TRUE)
         ELSE clone_done(CloneError(out), cleanup_repo(ctemp, stuck))
    /\ UNCHANGED csite

(***************************************************************************)
(* Chunker (app/services/chunker.py).  A file is the list splitlines gives, *)
(* a line being its length in characters; the content of a chunk is the    *)
(* list of the lines joined into it.  chunk_code_file advances one         *)
(* iteration of its while loop per step; the for loop of chunk_doc_file    *)
(* is one step.  A chunk id is the text that is hashed.                    *)
(***************************************************************************)
MaxLines == 4
MaxChunkLines == 3
MaxOverlap == 3

\* lengths of a line: a bare newline, a short line, a long line
LineLens == {1, 4, 12}
DocChunkTokens == {2, 4}
DocOverlaps == {0, 100}
ChunkTypes == {"code", "doc", "config"}

NoFile == [lines |-> <<>>, chunk_type |-> "code"]

\* settings.code_chunk_lines, code_chunk_overlap, doc_chunk_tokens,
\* doc_chunk_overlap scaled down
DefaultChunker ==
    [code_chunk_lines |-> 3, code_overlap |-> 1, doc_chunk_tokens |-> 4, doc_overlap |-> 100]

Chunkers ==
    [code_chunk_lines : 1..MaxChunkLines, code_overlap : 0..MaxOverlap,
     doc_chunk_tokens : DocChunkTokens, doc_overlap : DocOverlaps]

RECURSIVE CharsIn(_)
CharsIn(text) == IF text = <<>> THEN 0 ELSE Head(text) + CharsIn(Tail(text))

\* estimate_tokens of the lines joined
estimate_tokens(text) == CharsIn(text) \div 4

RECURSIVE LineTokens(_)
\* sum(estimate_tokens(l) for l in lines)
LineTokens(text) ==
    IF text = <<>> THEN 0 ELSE (Head(text) \div 4) + LineTokens(Tail(text))

generate_chunk_id(repo_id, file_path, start_line) == <<repo_id, file_path, start_line>>

Larger(a, b) == IF a >= b THEN a ELSE b

NewChunk(start_line, end_line, chunk_type, token_count, content) ==
    [chunk_id |-> generate_chunk_id("r1", "f", start_line),
     start_line |-> start_line, end_line |-> end_line, chunk_type |-> chunk_type,
     token_count |-> token_count, content |-> content]

\* (mutation) the start line is left 0-indexed
code_chunk_zero_indexed(lines, i, end) ==
    NewChunk(i, end, "code", estimate_tokens(SubSeq(lines, i + 1, end)),
             SubSeq(lines, i + 1, end))

\* the chunk of one iteration of chunk_code_file: lines[i:end]
code_chunk(lines, i, end) ==
    NewChunk(i + 1, end, "code", estimate_tokens(SubSeq(lines, i + 1, end)),
             SubSeq(lines, i + 1, end))

\* (mutation) the advance without its guard
next_i_unguarded(i, end, len, code_overlap) ==
    IF end < len THEN end - code_overlap ELSE end

\* "Move to next chunk with overlap": i is where the chunk just made began
next_i(i, end, len, code_overlap) ==
    LET moved == IF end < len THEN end - code_overlap ELSE end
    IN  IF moved <= i THEN end ELSE moved

\* the chunk chunk_doc_file makes of current_chunk_lines
doc_chunk(st) ==
    NewChunk(st.current_start, st.current_start + Len(st.current_chunk_lines) - 1, "doc",
             st.current_tokens, st.current_chunk_lines)

\* one pass of the for loop of chunk_doc_file, at line j (i = j - 1)
doc_line(st, lines, j, cfg) ==
    LET line_tokens == lines[j] \div 4
        flush == /\ st.current_tokens + line_tokens > cfg.doc_chunk_tokens
                 /\ st.current_chunk_lines # <<>>
        overlap_lines == Larger(1, cfg.doc_overlap \div 50)
        overlap_start == Larger(0, Len(st.current_chunk_lines) - overlap_lines)
        carried == SubSeq(st.current_chunk_lines, overlap_start + 1,
                          Len(st.current_chunk_lines))
        s1 == IF flush
              THEN [chunks |-> Append(st.chunks, doc_chunk(st)),
                    current_chunk_lines |-> carried,
                    current_start |-> (j - 1) + 1 - Len(carried),
                    current_tokens |-> LineTokens(carried)]
              ELSE st
    IN  [s1 EXCEPT !.current_chunk_lines = Append(@, lines[j]),
                   !.current_tokens = @ + line_tokens]

RECURSIVE doc_loop(_, _, _, _)
doc_loop(st, lines, j, cfg) ==
    IF j > Len(lines) THEN st
    ELSE doc_loop(doc_line(st, lines, j, cfg), lines, j + 1, cfg)

chunk_doc_file(lines, cfg) ==
    IF lines = <<>> THEN <<>>
    ELSE LET st == doc_loop([chunks |-> <<>>, current_chunk_lines |-> <<>>,
                             current_start |-> 1, current_tokens |-> 0], lines, 1, cfg)
         IN  IF st.current_chunk_lines # <<>> THEN Append(st.chunks, doc_chunk(st))
             ELSE st.chunks

\* chunk_file is called
ChunkCall ==
    /\ kpc = "call"
    /\ LET lines == kfile.lines
           whole == estimate_tokens(lines) < kcfg.doc_chunk_tokens
       IN  IF kfile.chunk_type = "doc"
           THEN /\ kchunks' = chunk_doc_file(lines, kcfg)
                /\ kpc' = "done"
           ELSE IF kfile.chunk_type = "config" /\ whole
           THEN /\ kchunks' = <<NewChunk(1, Larger(Len(lines), 1), "config",
                                         estimate_tokens(lines), lines)>>
                /\ kpc' = "done"
           ELSE /\ kchunks' = <<>>
                /\ kpc' = IF lines = <<>> THEN "done" ELSE "code"
    /\ ki' = 0
    /\ UNCHANGED <<kfile, kcfg>>

\* one iteration of the while loop of chunk_code_file
ChunkCodeStep ==
    /\ kpc = "code"
    /\ LET lines == kfile.lines
           end == Min(ki + kcfg.code_chunk_lines, Len(lines))
           i == next_i(ki, end, Len(lines), kcfg.code_overlap)
       IN  /\ kchunks' = Append(kchunks, code_chunk(lines, ki, end))
           /\ ki' = i
           /\ kpc' = IF i < Len(lines) THEN "code" ELSE "done"
    /\ UNCHANGED <<kfile, kcfg>>

(***************************************************************************)
(* LLMService (app/utils/llm.py): the provider chosen at start and         *)
(* chat_completion.  A provider call answers or raises; Ollama's liveness  *)
(* probe answers either way each time it is made.                          *)
(***************************************************************************)
NoCompletion == [kind |-> "none"]
Completion(by) == [kind |-> "returned", by |-> by]
CompletionRaised == [kind |-> "raised"]

Overrides == {"none", "ollama", "ollama_b", "openai", "gemini"}

\* __init__: Ollama if its probe succeeds, else OpenAI/Groq if a key is
\* set, else Gemini if a key is set, else mock
initial_provider(ollama_available, settings) ==
    IF ollama_available THEN "ollama"
    ELSE IF settings.openai_api_key THEN "openai"
    ELSE IF settings.gemini_api_key THEN "gemini"
    ELSE "mock"

ProviderCall(provider, ok) == [provider |-> provider, ok |-> ok]

\* the except block of chat_completion after the call of provider raised:
\* the fallbacks still open, in the order tried
fallbacks(provider, override, settings, ollama_available) ==
    IF override # "none" THEN <<>>
    ELSE (IF provider \notin {"ollama", "ollama_b"} /\ ollama_available
          THEN <<"ollama">> ELSE <<>>)
         \o (IF provider = "openai" /\ settings.gemini_api_key THEN <<"gemini">> ELSE <<>>)

\* chat_completion up to its first await
LLMCall(override) ==
    /\ lpc = "idle"
    /\ l_override' = override
    /\ LET provider == IF override # "none" THEN override ELSE l_provider IN
       IF provider = "mock"
       THEN /\ lret' = Completion("mock")
            /\ l_called' = <<>>
            /\ lpc' = "idle"
       ELSE /\ lret' = NoCompletion
            /\ l_called' = <<ProviderCall(provider, FALSE)>>
            /\ lpc' = "first"
    /\ UNCHANGED <<l_provider, l_settings>>

\* the awaited call of the provider; when it raises, the first fallback
LLMFirst ==
    /\ lpc = "first"
    /\ \E ok, ollama_available \in BOOLEAN :
         LET provider == l_called[1].provider
             next == fallbacks(provider, l_override, l_settings, ollama_available)
         IN  IF ok
             THEN /\ l_called' = <<ProviderCall(provider, TRUE)>>
                  /\ lret' = Completion(provider)
                  /\ lpc' = "idle"
             ELSE IF next = <<>>
             THEN /\ lret' = CompletionRaised
                  /\ lpc' = "idle"
                  /\ UNCHANGED l_called
             ELSE /\ l_called' = Append(l_called, ProviderCall(next[1], FALSE))
                  /\ lpc' = "fallback"
                  /\ UNCHANGED lret
    /\ UNCHANGED <<l_provider, l_settings, l_override>>

\* the awaited call of a fallback; when it raises, the Gemini fallback if it
\* is open and was not the one tried, else the first error is re-raised
LLMFallback ==
    /\ lpc = "fallback"
    /\ \E ok \in BOOLEAN :
         LET n == Len(l_called)
             tried == l_called[n].provider
             first == l_called[1].provider
         IN  IF ok
             THEN /\ l_called' = [l_called EXCEPT ![n].ok = TRUE]
                  /\ lret' = Completion(tried)
                  /\ lpc' = "idle"
             ELSE IF tried = "ollama" /\ first = "openai" /\ l_settings.gemini_api_key
             THEN /\ l_called' = Append(l_called, ProviderCall("gemini", FALSE))
                  /\ UNCHANGED <<lpc, lret>>
             ELSE /\ lret' = CompletionRaised
                  /\ lpc' = "idle"
                  /\ UNCHANGED l_called
    /\ UNCHANGED <<l_provider, l_settings, l_override>>

(***************************************************************************)
(* Specifications                                                          *)
(***************************************************************************)
\* Decisions a chat provider is taken to answer with in SpecRoute.
RouteLLMOutcomes ==
    {LLMFail,
     LLMOutcome(TRUE, RoutingDecision("EXPLAIN", <<>>, "llm", 50, FALSE, <<>>, <<>>)),
     LLMOutcome(TRUE, RoutingDecision("REFUSE", <<>>, "llm", 50, FALSE, <<>>, <<>>))}

RouteIdle ==
    /\ rq = <<>>
    /\ rpc = "idle"
    /\ rdecision = NoDecision
    /\ rllm = 0

SmartIdle ==
    /\ repoCommit = [r \in Repos |-> 0]
    /\ before_reindex = [r \in Repos |-> NothingHeld]
    /\ cache_call = NoCacheCall
    /\ now = 0
    /\ response_store = <<>>
    /\ routing_store = <<>>
    /\ spc = "idle"
    /\ sreq = NoRequest
    /\ scommit = 0
    /\ sresult = NoResult
    /\ seval_res = NotRun
    /\ stest_res = NotRun
    /\ scalls = NoCalls
    /\ sresp = NoResponse
    /\ nreq = 0
    /\ prev = NoPrev
    /\ clean = FALSE
    /\ pairClean = FALSE

IndexIdle ==
    /\ repos = [id \in Repos |-> NoRepo]
    /\ registry_file = NoRegistry
    /\ use_persistent_index = FALSE
    /\ index_meta = [id \in Repos |-> MetaAbsent]
    /\ store_file = [id \in Repos |-> FALSE]
    /\ ipc = [r \in Runs |-> "idle"]
    /\ irun = [r \in Runs |-> NewRun("", FALSE)]
    /\ iret = [r \in Runs |-> NoReturn]
    /\ embedding_service = MockEmbeddingService
    /\ collection = [id \in Repos |-> EmptyCollection]
    /\ listed_files = <<>>
    /\ selected_files = NoSelection

EvalIdle ==
    /\ epc = "idle"
    /\ ediffs = <<>>
    /\ ecritic = NoReview
    /\ edefender = NoReview
    /\ eresult = NoEvaluation

AgentIdle ==
    /\ apc = "idle"
    /\ acall = NoAgentCall
    /\ afailed = "none"
    /\ aret = NoAgentReturn

RefineIdle ==
    /\ fpc = "idle"
    /\ fi = 0
    /\ current_code = 0
    /\ current_tests = 0
    /\ iteration_log = <<>>
    /\ iteration = NoIteration
    /\ fruns = 0
    /\ fres = NoRefinement

RegistryIdle ==
    /\ m_repos = [id \in RegIds |-> NoRepo]
    /\ m_file = NoRegistry
    /\ m_paths = {}
    /\ m_persistent = FALSE
    /\ m_reloaded = FALSE

CloneIdle ==
    /\ cpc = "idle"
    /\ csite = "none"
    /\ ctemp = FALSE
    /\ cattempt = 0
    /\ cleft = 0
    /\ cret = NoClone

LLMIdle ==
    /\ l_provider = "mock"
    /\ l_settings = [openai_api_key |-> FALSE, gemini_api_key |-> FALSE]
    /\ lpc = "idle"
    /\ l_override = "none"
    /\ l_called = <<>>
    /\ lret = NoCompletion

ChunkIdle ==
    /\ kpc = "idle"
    /\ kfile = NoFile
    /\ kcfg = DefaultChunker
    /\ ki = 0
    /\ kchunks = <<>>

ServiceIdle ==
    /\ EvalIdle /\ AgentIdle /\ RefineIdle /\ RegistryIdle /\ CloneIdle /\ LLMIdle
    /\ ChunkIdle

CoreIdle == RouteIdle /\ SmartIdle /\ IndexIdle

RouteInit ==
    /\ SmartIdle
    /\ IndexIdle
    /\ ServiceIdle
    /\ rq \in SeqsUpTo(Chars, MaxQueryLen)
    /\ rpc = "call"
    /\ rdecision = NoDecision
    /\ rllm = 0

RouteCall ==
    /\ rpc = "call"
    /\ \E o1, o2 \in RouteLLMOutcomes :
         LET r == route(rq, o1, o2) IN
         /\ rdecision' = r.decision
         /\ rllm' = r.llm_calls
    /\ rpc' = "returned"
    /\ UNCHANGED <<rq, smartVars, indexVars, serviceVars>>

RouteNext == RouteCall

SpecRoute == RouteInit /\ [][RouteNext]_vars

\* Decisions a chat provider is taken to answer with in SpecSmart.
SmartLLMOutcomes ==
    {LLMFail}
    \cup {LLMOutcome(TRUE, RoutingDecision(p, s, "llm", 90, FALSE, par, <<>>)) :
            p \in {"EXPLAIN", "GENERATE", "TEST"},
            s \in {<<>>, <<"GENERATE">>, <<"TEST", "GENERATE">>},
            par \in {<<>>, <<"TEST">>}}
    \cup {LLMOutcome(TRUE, RoutingDecision("DECOMPOSE", <<"EXPLAIN">>, "llm", 90, TRUE, <<>>, <<>>)),
          LLMOutcome(TRUE, RoutingDecision("REFUSE", <<>>, "llm", 90, FALSE, <<>>, <<"TEST">>))}

\* SpecSmart: one request, already arrived, against empty caches, with every
\* routing decision and agent outcome of the sets above.
SmartInit ==
    /\ RouteIdle
    /\ IndexIdle
    /\ ServiceIdle
    /\ repoCommit \in [Repos -> 0..1]
    /\ before_reindex = [r \in Repos |-> NothingHeld]
    /\ cache_call = NoCacheCall
    /\ now = 0
    /\ response_store = <<>>
    /\ routing_store = <<>>
    /\ spc = "begin"
    /\ sreq \in [repo_id : Repos, question : Questions]
    /\ scommit = 0
    /\ sresult = NoResult
    /\ seval_res = NotRun
    /\ stest_res = NotRun
    /\ scalls = NoCalls
    /\ sresp = NoResponse
    /\ nreq = 1
    /\ prev = NoPrev
    /\ clean = FALSE
    /\ pairClean = FALSE

SmartNext ==
    \/ SmartBegin /\ UNCHANGED <<routeVars, indexVars, serviceVars>>
    \/ SmartRoute(SmartLLMOutcomes) /\ UNCHANGED <<routeVars, indexVars, serviceVars>>
    \/ SmartPhaseA(ExplainOutcomes, GenerateOutcomes) /\ UNCHANGED <<routeVars, indexVars, serviceVars>>
    \/ SmartLaunch(TestOutcomes) /\ UNCHANGED <<routeVars, indexVars, serviceVars>>
    \/ SmartEvalDone(EvalOutcomes) /\ UNCHANGED <<routeVars, indexVars, serviceVars>>
    \/ SmartTestDone(TestOutcomes) /\ UNCHANGED <<routeVars, indexVars, serviceVars>>
    \/ SmartJoin /\ UNCHANGED <<routeVars, indexVars, serviceVars>>

SpecSmart == SmartInit /\ [][SmartNext]_vars

\* SpecCache: successive requests against the caches while time passes and
\* repositories are loaded; the chat provider is down (routing is by the
\* pre-check and the heuristic) and the agents answer without failing.
CacheExplainOutcomes == {ExplainOk("answer-1", "high"), ExplainOk("answer-2", "low")}
CacheGenerateOutcomes == {GenerateOk(1, "plan-1")}
CacheEvalOutcomes == {EvalOk("ACCEPT_ORIGINAL", 0), EvalOk("REQUEST_REVISION", 0)}
CacheTestOutcomes == {TestOk}

CacheInit == RouteIdle /\ SmartIdle /\ IndexIdle /\ ServiceIdle

CacheNext ==
    \/ \E r \in Repos, q \in Questions : SmartArrive(r, q) /\ UNCHANGED <<routeVars, indexVars, serviceVars>>
    \/ SmartBegin /\ UNCHANGED <<routeVars, indexVars, serviceVars>>
    \/ SmartRoute({LLMFail}) /\ UNCHANGED <<routeVars, indexVars, serviceVars>>
    \/ SmartPhaseA(CacheExplainOutcomes, CacheGenerateOutcomes) /\ UNCHANGED <<routeVars, indexVars, serviceVars>>
    \/ SmartLaunch(CacheTestOutcomes) /\ UNCHANGED <<routeVars, indexVars, serviceVars>>
    \/ SmartEvalDone(CacheEvalOutcomes) /\ UNCHANGED <<routeVars, indexVars, serviceVars>>
    \/ SmartTestDone(CacheTestOutcomes) /\ UNCHANGED <<routeVars, indexVars, serviceVars>>
    \/ SmartJoin /\ UNCHANGED <<routeVars, indexVars, serviceVars>>
    \/ Tick /\ UNCHANGED <<routeVars, indexVars, serviceVars>>
    \/ \E r \in Repos : LoadRepo(r) /\ UNCHANGED <<routeVars, indexVars, serviceVars>>

SpecCache == CacheInit /\ [][CacheNext]_vars

\* SpecIndex: POST /repo/index requests of two clients on the backend.
IndexInit ==
    /\ RouteIdle
    /\ SmartIdle
    /\ ServiceIdle
    /\ use_persistent_index \in BOOLEAN
    /\ repos \in [Repos -> {NoRepo, NewRepoInfo(RepoInfoFields, 1)}]
    /\ registry_file = save_registry(repos, NoRegistry, "ok")
    /\ index_meta = [id \in Repos |-> MetaAbsent]
    /\ store_file \in [Repos -> BOOLEAN]
    /\ ipc = [r \in Runs |-> "idle"]
    /\ irun = [r \in Runs |-> NewRun("", FALSE)]
    /\ iret = [r \in Runs |-> NoReturn]
    /\ embedding_service = MockEmbeddingService
    /\ collection = [id \in Repos |-> EmptyCollection]
    /\ listed_files = <<>>
    /\ selected_files = NoSelection

IndexNext ==
    \/ \E r \in Runs, id \in Repos, force \in BOOLEAN :
         IndexRequest(r, id, force) /\ UNCHANGED <<routeVars, smartVars, serviceVars>>
    \/ \E r \in Runs : IndexList(r) /\ UNCHANGED <<routeVars, smartVars, serviceVars>>
    \/ \E r \in Runs : IndexRead(r) /\ UNCHANGED <<routeVars, smartVars, serviceVars>>
    \/ \E r \in Runs : IndexChunk(r) /\ UNCHANGED <<routeVars, smartVars, serviceVars>>
    \/ \E r \in Runs : IndexPrepare(r) /\ UNCHANGED <<routeVars, smartVars, serviceVars>>
    \/ \E r \in Runs : IndexEmbed(r) /\ UNCHANGED <<routeVars, smartVars, serviceVars>>

SpecIndex == IndexInit /\ [][IndexNext]_vars

\* SpecWIndex: successive index_repo calls of the website's indexer, over
\* every sidecar and store a data directory can hold when it starts.  The
\* website's RepoInfo is not among the sources: a record holds the fields the
\* indexer reads and assigns, with or without those it names to update_repo.
WRuns == {"a"}

WIndexInit ==
    /\ RouteIdle
    /\ SmartIdle
    /\ ServiceIdle
    /\ use_persistent_index \in BOOLEAN
    /\ repos \in [Repos -> {NoRepo}
                           \cup {NewRepoInfo(f, c) :
                                   f \in {RepoInfoFields, RepoInfoFields \cup IndexStateFields},
                                   c \in 1..MaxCommit}]
    /\ registry_file = save_registry(repos, NoRegistry, "ok")
    /\ index_meta \in [Repos -> {MetaAbsent, MetaCorrupt}
                                \cup {MetaOk(c, n) : c \in 1..MaxCommit, n \in 0..1}]
    /\ store_file \in [Repos -> BOOLEAN]
    /\ ipc = [r \in Runs |-> "idle"]
    /\ irun = [r \in Runs |-> NewRun("", FALSE)]
    /\ iret = [r \in Runs |-> NoReturn]
    /\ embedding_service = MockEmbeddingService
    /\ collection = [id \in Repos |-> EmptyCollection]
    /\ listed_files = <<>>
    /\ selected_files = NoSelection

WIndexNext ==
    \/ \E r \in WRuns, id \in Repos, force \in BOOLEAN :
         WIndexRepo(r, id, force) /\ UNCHANGED <<routeVars, smartVars, serviceVars>>
    \/ \E r \in WRuns : IndexList(r) /\ UNCHANGED <<routeVars, smartVars, serviceVars>>
    \/ \E r \in WRuns : IndexRead(r) /\ UNCHANGED <<routeVars, smartVars, serviceVars>>
    \/ \E r \in WRuns : IndexChunk(r) /\ UNCHANGED <<routeVars, smartVars, serviceVars>>
    \/ \E r \in WRuns : IndexPrepare(r) /\ UNCHANGED <<routeVars, smartVars, serviceVars>>
    \/ \E r \in WRuns : WIndexEmbed(r) /\ UNCHANGED <<routeVars, smartVars, serviceVars>>

SpecWIndex == WIndexInit /\ [][WIndexNext]_vars

\* SpecSelect: _select_files_for_index on every short listing.
SelectInit ==
    /\ RouteIdle
    /\ SmartIdle
    /\ ServiceIdle
    /\ use_persistent_index = FALSE
    /\ repos = [id \in Repos |-> NoRepo]
    /\ registry_file = NoRegistry
    /\ index_meta = [id \in Repos |-> MetaAbsent]
    /\ store_file = [id \in Repos |-> FALSE]
    /\ ipc = [r \in Runs |-> "idle"]
    /\ irun = [r \in Runs |-> NewRun("", FALSE)]
    /\ iret = [r \in Runs |-> NoReturn]
    /\ embedding_service = MockEmbeddingService
    /\ collection = [id \in Repos |-> EmptyCollection]
    /\ listed_files \in SeqsUpTo(ListedFile, MaxListed)
    /\ selected_files = NoSelection

SelectNext == SelectFiles /\ UNCHANGED <<routeVars, smartVars, serviceVars>>

SpecSelect == SelectInit /\ [][SelectNext]_vars

\* SpecCIndex: index_repo calls of two tasks of the website on one repository,
\* run concurrently and one after another, on a record that holds the
\* index-state fields or not.  The index is ephemeral, so that force has no
\* effect and rmtree is never awaited.
CIndexInit ==
    /\ RouteIdle
    /\ SmartIdle
    /\ ServiceIdle
    /\ use_persistent_index = FALSE
    /\ \E f \in {RepoInfoFields, RepoInfoFields \cup IndexStateFields} :
         repos = [id \in Repos |-> NewRepoInfo(f, 1)]
    /\ registry_file = save_registry(repos, NoRegistry, "ok")
    /\ index_meta = [id \in Repos |-> MetaAbsent]
    /\ store_file = [id \in Repos |-> FALSE]
    /\ ipc = [r \in Runs |-> "idle"]
    /\ irun = [r \in Runs |-> NewRun("", FALSE)]
    /\ iret = [r \in Runs |-> NoReturn]
    /\ embedding_service = MockEmbeddingService
    /\ collection = [id \in Repos |-> EmptyCollection]
    /\ listed_files = <<>>
    /\ selected_files = NoSelection

CIndexNext ==
    \/ \E r \in Runs, id \in Repos :
         WIndexRepo(r, id, FALSE) /\ UNCHANGED <<routeVars, smartVars, serviceVars>>
    \/ \E r \in Runs : IndexList(r) /\ UNCHANGED <<routeVars, smartVars, serviceVars>>
    \/ \E r \in Runs : IndexRead(r) /\ UNCHANGED <<routeVars, smartVars, serviceVars>>
    \/ \E r \in Runs : IndexChunk(r) /\ UNCHANGED <<routeVars, smartVars, serviceVars>>
    \/ \E r \in Runs : WIndexEmbed(r) /\ UNCHANGED <<routeVars, smartVars, serviceVars>>

SpecCIndex == CIndexInit /\ [][CIndexNext]_vars

\* SpecEmbed: successive POST /repo/index requests of one client, under every
\* EmbeddingService the settings and the Ollama server can give the process.
ERuns == {"a"}

EmbedInit ==
    /\ RouteIdle
    /\ SmartIdle
    /\ ServiceIdle
    /\ use_persistent_index \in BOOLEAN
    /\ repos = [id \in Repos |-> NewRepoInfo(RepoInfoFields, 1)]
    /\ registry_file = save_registry(repos, NoRegistry, "ok")
    /\ index_meta = [id \in Repos |-> MetaAbsent]
    /\ store_file = [id \in Repos |-> FALSE]
    /\ ipc = [r \in Runs |-> "idle"]
    /\ irun = [r \in Runs |-> NewRun("", FALSE)]
    /\ iret = [r \in Runs |-> NoReturn]
    /\ embedding_service \in EmbeddingServices
    /\ collection = [id \in Repos |-> EmptyCollection]
    /\ listed_files = <<>>
    /\ selected_files = NoSelection

EmbedNext ==
    \/ \E r \in ERuns, id \in Repos, force \in BOOLEAN :
         IndexRequest(r, id, force) /\ UNCHANGED <<routeVars, smartVars, serviceVars>>
    \/ \E r \in ERuns : IndexList(r) /\ UNCHANGED <<routeVars, smartVars, serviceVars>>
    \/ \E r \in ERuns : IndexRead(r) /\ UNCHANGED <<routeVars, smartVars, serviceVars>>
    \/ \E r \in ERuns : IndexChunk(r) /\ UNCHANGED <<routeVars, smartVars, serviceVars>>
    \/ \E r \in ERuns : IndexPrepare(r) /\ UNCHANGED <<routeVars, smartVars, serviceVars>>
    \/ \E r \in ERuns : IndexEmbed(r) /\ UNCHANGED <<routeVars, smartVars, serviceVars>>

SpecEmbed == EmbedInit /\ [][EmbedNext]_vars

(***************************************************************************)
(* The ResponseCache under calls of its methods in any order.  Each method *)
(* holds the lock from its first read of a store to its last write and     *)
(* does not await in between, so a call is one step.  The stores start     *)
(* empty, one entry short of their capacity or at it, filled over the time before *)
(* the start by requests for one question at as many commits and           *)
(* repositories in turn (responses) or for as many questions (routing).    *)
(***************************************************************************)
CachedRepos == {"r1", "r2"}
StoreQuestions == {<<"o">>, <<"a", "d", "d">>}

MaxCacheCalls == 3
FillerCommit == 100
FillerBlock == 50
StartClock == 10

\* the commits asked for: a new one and that of the first entry stored
StoreCommits == {1, FillerCommit + 1}

FillerRepo(i) == IF i % 2 = 1 THEN "r1" ELSE "r2"

\* the i-th response stored before the start, as lines 745-748 store it
ResponseFiller(i) ==
    [key |-> response_key(FillerRepo(i), <<"o">>, FillerCommit + i),
     value |-> [cache_repo_id |-> FillerRepo(i), answer |-> "earlier"],
     created_at |-> i \div FillerBlock,
     hits |-> 0]

\* the i-th routing decision stored before the start
RoutingFiller(i) ==
    [key |-> <<"x", ToString(i)>>,
     value |-> [primary_action |-> "EXPLAIN"],
     created_at |-> i \div FillerBlock,
     hits |-> 0]

CacheCalled(op, repo_id, key, hit, count) ==
    [cache_call EXCEPT !.op = op, !.repo_id = repo_id, !.key = key, !.hit = hit,
                       !.count = count, !.calls = @ + 1]

StoreOnly ==
    UNCHANGED <<repoCommit, before_reindex, now, spc, sreq, scommit, sresult, seval_res,
                stest_res, scalls, sresp, nreq, prev, clean, pairClean>>

\* await response_cache.get_response(repo_id, question, commit_hash)
CacheGetResponse(repo_id, question, commit_hash) ==
    /\ cache_call.calls < MaxCacheCalls
    /\ LET got == get_response(response_store, repo_id, question, commit_hash, now) IN
       /\ response_store' = got.store
       /\ cache_call' =
              [CacheCalled("get_response", repo_id,
                           response_key(repo_id, question, commit_hash), got.hit, 0) EXCEPT
                  !.last_hit = IF got.hit
                               THEN [key |-> response_key(repo_id, question, commit_hash),
                                     at |-> now]
                               ELSE @]
    /\ UNCHANGED routing_store
    /\ StoreOnly

\* result["_cache_repo_id"] = request.repo_id; await response_cache.put_response(...)
CachePutResponse(repo_id, question, commit_hash) ==
    /\ cache_call.calls < MaxCacheCalls
    /\ response_store' =
           put_response(response_store, repo_id, question, commit_hash,
                        [cache_repo_id |-> repo_id, answer |-> "new"], now)
    /\ cache_call' =
           [CacheCalled("put_response", repo_id,
                        response_key(repo_id, question, commit_hash), FALSE, 0) EXCEPT
               !.last_hit = IF @.key = response_key(repo_id, question, commit_hash)
                            THEN NoHit ELSE @,
               !.invalidated = @ \ {repo_id}]
    /\ UNCHANGED routing_store
    /\ StoreOnly

\* await response_cache.get_routing(question)
CacheGetRouting(question) ==
    /\ cache_call.calls < MaxCacheCalls
    /\ LET got == get_routing(routing_store, question, now) IN
       /\ routing_store' = got.store
       /\ cache_call' = CacheCalled("get_routing", "", routing_key(question), got.hit, 0)
    /\ UNCHANGED response_store
    /\ StoreOnly

\* await response_cache.put_routing(question, value)
CachePutRouting(question) ==
    /\ cache_call.calls < MaxCacheCalls
    /\ routing_store' =
           put_routing(routing_store, question, [primary_action |-> "GENERATE"], now)
    /\ cache_call' = CacheCalled("put_routing", "", routing_key(question), FALSE, 0)
    /\ UNCHANGED response_store
    /\ StoreOnly

\* await response_cache.invalidate_repo(repo_id)
CacheInvalidateRepo(repo_id) ==
    /\ cache_call.calls < MaxCacheCalls
    /\ LET done == invalidate_repo(response_store, repo_id) IN
       /\ response_store' = done.store
       /\ cache_call' =
              [CacheCalled("invalidate_repo", repo_id, <<>>, FALSE, done.count) EXCEPT
                  !.invalidated = @ \cup {repo_id}]
    /\ UNCHANGED routing_store
    /\ StoreOnly

\* time passes between two calls
CacheTick ==
    /\ cache_call.calls < MaxCacheCalls
    /\ now + TickStep <= MaxClock
    /\ now' = now + TickStep
    /\ cache_call' = CacheCalled("none", "", <<>>, FALSE, 0)
    /\ UNCHANGED <<repoCommit, before_reindex, cacheVars, spc, sreq, scommit, sresult,
                   seval_res, stest_res, scalls, sresp, nreq, prev, clean, pairClean>>

StoreInit ==
    /\ RouteIdle
    /\ IndexIdle
    /\ ServiceIdle
    /\ repoCommit = [r \in Repos |-> 0]
    /\ before_reindex = [r \in Repos |-> NothingHeld]
    /\ cache_call = NoCacheCall
    /\ now = StartClock
    /\ \E n \in {0, RESPONSE_MAX_ENTRIES - 1, RESPONSE_MAX_ENTRIES} :
          response_store = [i \in 1..n |-> ResponseFiller(i)]
    /\ \E n \in {0, ROUTING_MAX_ENTRIES - 1, ROUTING_MAX_ENTRIES} :
          routing_store = [i \in 1..n |-> RoutingFiller(i)]
    /\ spc = "idle"
    /\ sreq = NoRequest
    /\ scommit = 0
    /\ sresult = NoResult
    /\ seval_res = NotRun
    /\ stest_res = NotRun
    /\ scalls = NoCalls
    /\ sresp = NoResponse
    /\ nreq = 0
    /\ prev = NoPrev
    /\ clean = FALSE
    /\ pairClean = FALSE

StoreNext ==
    \/ \E r \in CachedRepos, q \in StoreQuestions, c \in StoreCommits :
          CacheGetResponse(r, q, c) /\ UNCHANGED <<routeVars, indexVars, serviceVars>>
    \/ \E r \in CachedRepos, q \in StoreQuestions, c \in StoreCommits :
          CachePutResponse(r, q, c) /\ UNCHANGED <<routeVars, indexVars, serviceVars>>
    \/ \E q \in StoreQuestions :
          CacheGetRouting(q) /\ UNCHANGED <<routeVars, indexVars, serviceVars>>
    \/ \E q \in StoreQuestions :
          CachePutRouting(q) /\ UNCHANGED <<routeVars, indexVars, serviceVars>>
    \/ \E r \in CachedRepos :
          CacheInvalidateRepo(r) /\ UNCHANGED <<routeVars, indexVars, serviceVars>>
    \/ CacheTick /\ UNCHANGED <<routeVars, indexVars, serviceVars>>

SpecStore == StoreInit /\ [][StoreNext]_vars

\* One evaluation after another, over every list of diffs and every outcome
\* of the reviewers and the controller.
EvalInit == CoreIdle /\ ServiceIdle

EvalNext ==
    \/ \E diffs \in SeqsUpTo(DiffKinds, MaxDiffs) : EvalCall(diffs) /\ UNCHANGED <<coreVars, agentVars, refineVars, registryVars, cloneVars, llmVars, chunkVars>>
    \/ EvalReviewed /\ UNCHANGED <<coreVars, agentVars, refineVars, registryVars, cloneVars, llmVars, chunkVars>>
    \/ EvalControlled /\ UNCHANGED <<coreVars, agentVars, refineVars, registryVars, cloneVars, llmVars, chunkVars>>

SpecEval == EvalInit /\ [][EvalNext]_vars

\* One agent call after another, over every argument and every outcome of
\* the retrievals, the completion and the template.
AgentInit == CoreIdle /\ ServiceIdle

AgentNext ==
    \/ \E c \in AgentCalls : AgentCall(c) /\ UNCHANGED <<coreVars, evalVars, refineVars, registryVars, cloneVars, llmVars, chunkVars>>
    \/ AgentRetrieved /\ UNCHANGED <<coreVars, evalVars, refineVars, registryVars, cloneVars, llmVars, chunkVars>>
    \/ AgentCompleted /\ UNCHANGED <<coreVars, evalVars, refineVars, registryVars, cloneVars, llmVars, chunkVars>>

SpecAgents == AgentInit /\ [][AgentNext]_vars

\* One refinement after another, over every outcome of the generator, the
\* test generator, pytest and the refining chat completion.
RefineInit == CoreIdle /\ ServiceIdle

RefineNext ==
    \/ RefineStart /\ UNCHANGED <<coreVars, evalVars, agentVars, registryVars, cloneVars, llmVars, chunkVars>>
    \/ RefineGenerate /\ UNCHANGED <<coreVars, evalVars, agentVars, registryVars, cloneVars, llmVars, chunkVars>>
    \/ RefineTests /\ UNCHANGED <<coreVars, evalVars, agentVars, registryVars, cloneVars, llmVars, chunkVars>>
    \/ RefinePytest /\ UNCHANGED <<coreVars, evalVars, agentVars, registryVars, cloneVars, llmVars, chunkVars>>
    \/ RefineFix /\ UNCHANGED <<coreVars, evalVars, agentVars, registryVars, cloneVars, llmVars, chunkVars>>

SpecRefine == RefineInit /\ [][RefineNext]_vars

\* A manager that loads and indexes repositories, loses clone directories
\* and restarts, with a persistent or an ephemeral vector store.
RegistryInit ==
    /\ CoreIdle
    /\ EvalIdle /\ AgentIdle /\ RefineIdle /\ CloneIdle /\ LLMIdle /\ ChunkIdle
    /\ m_repos = [id \in RegIds |-> NoRepo]
    /\ m_file = NoRegistry
    /\ m_paths = {}
    /\ m_persistent \in BOOLEAN
    /\ m_reloaded = FALSE

RegistryNext ==
    \/ \E id \in RegIds : RegLoadRepo(id) /\ UNCHANGED <<coreVars, evalVars, agentVars, refineVars, cloneVars, llmVars, chunkVars>>
    \/ \E id \in RegIds : RegIndexStart(id) /\ UNCHANGED <<coreVars, evalVars, agentVars, refineVars, cloneVars, llmVars, chunkVars>>
    \/ \E id \in RegIds : RegIndexed(id) /\ UNCHANGED <<coreVars, evalVars, agentVars, refineVars, cloneVars, llmVars, chunkVars>>
    \/ \E id \in RegIds : RegPathRemoved(id) /\ UNCHANGED <<coreVars, evalVars, agentVars, refineVars, cloneVars, llmVars, chunkVars>>
    \/ RegRestart /\ UNCHANGED <<coreVars, evalVars, agentVars, refineVars, cloneVars, llmVars, chunkVars>>

SpecRegistry == RegistryInit /\ [][RegistryNext]_vars

\* Clone requests to both services, one after another, until MaxClones
\* directories have been left behind.
CloneInit == CoreIdle /\ ServiceIdle

CloneNext ==
    \/ \E site \in {"backend", "website"} :
         CloneStart(site) /\ UNCHANGED <<coreVars, evalVars, agentVars, refineVars, registryVars, llmVars, chunkVars>>
    \/ CloneRan /\ UNCHANGED <<coreVars, evalVars, agentVars, refineVars, registryVars, llmVars, chunkVars>>
    \/ CloneRemove /\ UNCHANGED <<coreVars, evalVars, agentVars, refineVars, registryVars, llmVars, chunkVars>>
    \/ WCloneRan /\ UNCHANGED <<coreVars, evalVars, agentVars, refineVars, registryVars, llmVars, chunkVars>>

SpecClone == CloneInit /\ [][CloneNext]_vars

\* A service started under every configuration, answering one call after
\* another with and without provider_override.
LLMInit ==
    /\ CoreIdle
    /\ EvalIdle /\ AgentIdle /\ RefineIdle /\ RegistryIdle /\ CloneIdle /\ ChunkIdle
    /\ l_settings \in [openai_api_key : BOOLEAN, gemini_api_key : BOOLEAN]
    /\ \E ollama_available \in BOOLEAN :
         l_provider = initial_provider(ollama_available, l_settings)
    /\ lpc = "idle"
    /\ l_override = "none"
    /\ l_called = <<>>
    /\ lret = NoCompletion

LLMNext ==
    \/ \E override \in Overrides :
         LLMCall(override)
           /\ UNCHANGED <<coreVars, evalVars, agentVars, refineVars, registryVars, cloneVars, chunkVars>>
    \/ LLMFirst /\ UNCHANGED <<coreVars, evalVars, agentVars, refineVars, registryVars, cloneVars, chunkVars>>
    \/ LLMFallback /\ UNCHANGED <<coreVars, evalVars, agentVars, refineVars, registryVars, cloneVars, chunkVars>>

SpecLLM == LLMInit /\ [][LLMNext]_vars

ChunkInit ==
    /\ CoreIdle
    /\ EvalIdle /\ AgentIdle /\ RefineIdle /\ RegistryIdle /\ CloneIdle /\ LLMIdle
    /\ kpc = "call"
    /\ kfile \in [lines : SeqsUpTo(LineLens, MaxLines), chunk_type : ChunkTypes]
    /\ kcfg \in Chunkers
    /\ ki = 0
    /\ kchunks = <<>>

ChunkNext ==
    \/ ChunkCall /\ UNCHANGED <<coreVars, evalVars, agentVars, refineVars, registryVars, cloneVars, llmVars>>
    \/ ChunkCodeStep /\ UNCHANGED <<coreVars, evalVars, agentVars, refineVars, registryVars, cloneVars, llmVars>>

SpecChunk == ChunkInit /\ [][ChunkNext]_vars

\* chunk_code_file alone, under every chunk size and overlap; the call is
\* not suspended for ever: its loop goes on while it can
ChunkCodeInit ==
    /\ CoreIdle
    /\ EvalIdle /\ AgentIdle /\ RefineIdle /\ RegistryIdle /\ CloneIdle /\ LLMIdle
    /\ kpc = "call"
    /\ kfile \in [lines : SeqsUpTo(LineLens, MaxLines), chunk_type : {"code"}]
    /\ kcfg \in {c \in Chunkers : /\ c.doc_chunk_tokens = DefaultChunker.doc_chunk_tokens
                                  /\ c.doc_overlap = DefaultChunker.doc_overlap}
    /\ ki = 0
    /\ kchunks = <<>>

SpecChunkLive == ChunkCodeInit /\ [][ChunkNext]_vars /\ WF_vars(ChunkNext)

(***************************************************************************)
(* Properties of the router                                                *)
(***************************************************************************)
\* C4: every query whose lowercased text contains a REFUSE pattern is routed
\* to REFUSE with confidence 0.99 (so at least 0.95) and without any
\* chat-provider call.
C4_RefusePreFilter ==
    (rpc = "returned" /\ \E p \in REFUSE_PATTERNS : Contains(Lower(rq), p))
        => /\ rdecision.primary_action = "REFUSE"
           /\ rdecision.confidence = 99
           /\ rdecision.confidence >= 95
           /\ rllm = 0

\* a mixed-case query matching only after lowercasing has been routed
C4_Witness ==
    /\ rpc = "returned"
    /\ rq = <<"D", "d", "o", "s">>
    /\ rdecision.primary_action = "REFUSE"

(***************************************************************************)
(* Properties of smart_chat                                                *)
(***************************************************************************)
\* the present request has returned a result
Returned == spc = "idle" /\ sresp.status = "ok"

\* the result is one in which TEST was routed, generation produced diffs and
\* the controller asked for a revision
RevisionCase(r) ==
    /\ wants_test(r.routing)
    /\ r.generate.kind = "ok"
    /\ r.generate.diffs > 0
    /\ r.evaluation.kind = "ok"
    /\ r.evaluation.decision = "REQUEST_REVISION"

\* C1: when routing requested TEST, generation produced diffs and the
\* controller decided REQUEST_REVISION, the returned result has
\* test.skipped and "TEST" among agents_skipped.
C1_RevisionSkipsTest ==
    (Returned /\ RevisionCase(sresp.result))
        => /\ sresp.result.test.kind = "skipped"
           /\ InSeq("TEST", sresp.result.agents_skipped)

\* such a request has returned, its evaluator having run beside the test task
C1_Witness ==
    /\ Returned
    /\ RevisionCase(sresp.result)
    /\ scalls.evaluator = 1
    /\ sresp.result.test.kind = "skipped"

\* C2: when GENERATE and TEST are routed, generation produced diffs and the
\* controller decided REQUEST_REVISION, the test agent was not invoked at
\* any point of the request.
C2_TestNeverInvoked ==
    (/\ Returned
     /\ ~sresp.result.from_cache
     /\ wants_generate(sresp.result.routing)
     /\ RevisionCase(sresp.result))
        => scalls.test = 0

\* C5: when the routing decision is REFUSE the request has returned at once
\* with the refusal answer and low confidence, and no explain, generate,
\* evaluator or test task was started.
C5_RefuseImmediate ==
    sresult.routing.primary_action = "REFUSE"
        => /\ Returned
           /\ sresp.result.answer = REFUSAL_ANSWER
           /\ sresp.result.confidence = "low"
           /\ scalls.explain = 0
           /\ scalls.generate = 0
           /\ scalls.evaluator = 0
           /\ scalls.test = 0

\* a request refused by a chat provider's decision (not by the pre-check)
C5_Witness ==
    /\ Returned
    /\ sresult.routing.primary_action = "REFUSE"
    /\ scalls.llm > 0
    /\ sresp.result.answer = REFUSAL_ANSWER

\* primary, then secondary, then parallel actions of a decision
RoutedActions(d) == <<d.primary_action>> \o d.secondary_actions \o d.parallel_agents

FirstAt(x, s) == CHOOSE i \in 1..Len(s) : s[i] = x /\ \A j \in 1..(i - 1) : s[j] # x

C11_SkippedTestNotUsed ==
    (Returned /\ sresp.result.test.kind = "skipped")
        => ~InSeq("TEST", sresp.result.agents_used)

\* the evaluator's payload is in the result and carries improved code
MergeWithCode(r) ==
    /\ r.evaluation.kind = "ok"
    /\ r.evaluation.decision = "MERGE_FEEDBACK"
    /\ r.evaluation.improved > 0

\* C12: a result contains evaluation_improved_code exactly when the
\* evaluator ran, its controller decided MERGE_FEEDBACK and its
\* improved_code_by_file list is non-empty; the entry then equals that list.
C12_ImprovedCodeSurfaced ==
    Returned
        => LET r == sresp.result IN
           /\ (r.evaluation_improved_code.kind = "code") <=> MergeWithCode(r)
           /\ r.evaluation_improved_code.kind = "code"
                  => r.evaluation_improved_code.files = r.evaluation.improved

\* a result whose controller merged feedback and returned two improved files
C12_Witness ==
    /\ Returned
    /\ scalls.evaluator = 1
    /\ MergeWithCode(sresp.result)
    /\ sresp.result.evaluation_improved_code.files = 2

\* C13 as stated: the top-level answer is explain's answer, citations and
\* confidence when explain produced an answer; otherwise generate's plan
\* with confidence high when generate produced a result; otherwise a
\* neutral default.
C13_TopLevelAnswer ==
    (Returned /\ sresp.result.routing.primary_action # "REFUSE")
        => LET r == sresp.result IN
           IF r.explain.kind = "ok"
           THEN /\ r.answer = r.explain.answer
                /\ r.citations = r.explain.citations
                /\ r.confidence = r.explain.confidence
           ELSE IF r.generate.kind = "ok"
           THEN r.answer = r.generate.plan /\ r.confidence = "high"
           ELSE r.answer \in {"Request processed.", "Code generation completed."}

\* C14 as stated: a result of a request whose generate agent returned
\* non-empty diffs contains an impact entry.
C14_ImpactReported ==
    (/\ Returned
     /\ sresp.result.generate.kind = "ok"
     /\ sresp.result.generate.diffs > 0)
        => sresp.result.impact.kind # "absent"

\* the present request repeats the one before it, which returned a result
RepeatsPrev == prev.resp.status = "ok" /\ prev.req = sreq

SameButMarker(a, b) == [a EXCEPT !.from_cache = FALSE] = [b EXCEPT !.from_cache = FALSE]

\* C3 as stated: a back-to-back repeat returns the same result from the
\* response cache without running the router or an agent, and a repeat after
\* the commit hash changed is a miss.
C3_RepeatServedFromCache ==
    /\ (Returned /\ RepeatsPrev /\ prev.commit = scommit /\ pairClean)
          => /\ SameButMarker(sresp.result, prev.resp.result)
             /\ sresp.result.from_cache
             /\ scalls = NoCalls
    /\ (Returned /\ RepeatsPrev /\ prev.commit # scommit) => ~sresp.result.from_cache

\* C3 as amended: the repeat returns the same result (but for the _from_cache
\* marker) without running the router or an agent; it is served from the
\* response cache unless the request is refused, a refusal being rebuilt from
\* the cached routing decision; a repeat after the commit hash changed is a miss.
C3_RepeatEqualNoRerun ==
    /\ (Returned /\ RepeatsPrev /\ prev.commit = scommit /\ pairClean)
          => /\ SameButMarker(sresp.result, prev.resp.result)
             /\ scalls = NoCalls
             /\ sresp.result.from_cache = (sresp.result.routing.primary_action # "REFUSE")
    /\ (Returned /\ RepeatsPrev /\ prev.commit # scommit) => ~sresp.result.from_cache

\* a non-refused repeat served from the response cache
C3_Witness ==
    /\ Returned
    /\ RepeatsPrev
    /\ prev.commit = scommit
    /\ pairClean
    /\ sresp.result.from_cache
    /\ sresp.result.generate.kind = "ok"

(***************************************************************************)
(* Properties of the indexers                                              *)
(***************************************************************************)
InProgress(r) == ipc[r] # "idle"

FieldIs(rec, k, v) == k \in DOMAIN rec /\ rec[k] = v

\* the step in which the call of run r raises / returns normally
RaisesNow(r) == ipc[r] # "idle" /\ ipc'[r] = "idle" /\ iret'[r].kind = "raised"
ReturnsNow(r) == ipc[r] # "idle" /\ ipc'[r] = "idle" /\ iret'[r].kind = "returned"

\* C6: whatever the interleaving of index requests, at most one index_repo
\* execution per repo_id is in progress at any time.
C6_SingleIndexRun ==
    \A a, b \in Runs :
        (InProgress(a) /\ InProgress(b) /\ irun[a].repo_id = irun[b].repo_id) => a = b

\* C7: when a step of index_repo after the start transition raises, the
\* record ends with is_indexing = false and indexed = false, and the progress
\* counters keep the values written so far.
C7_FailureClearsIndexing ==
    [][\A r \in Runs :
         RaisesNow(r) =>
           LET before == repos[irun[r].repo_id]
               after == repos'[irun[r].repo_id]
           IN  /\ FieldIs(after, "is_indexing", FALSE)
               /\ FieldIs(after, "indexed", FALSE)
               /\ \A k \in {"index_progress_pct", "index_processed_chunks",
                            "index_total_chunks"} :
                     k \in DOMAIN after /\ after[k] = before[k]]_vars

\* C8: when index_repo returns normally, the record has indexed = true,
\* is_indexing = false, index_progress_pct = 100 and chunk_count =
\* index_processed_chunks <= index_total_chunks, the returned chunk_count is
\* the record's, and the registry file holds this state.
C8_NormalReturnState ==
    [][\A r \in Runs :
         ReturnsNow(r) =>
           LET rec == repos'[irun[r].repo_id] IN
           /\ FieldIs(rec, "indexed", TRUE)
           /\ FieldIs(rec, "is_indexing", FALSE)
           /\ FieldIs(rec, "index_progress_pct", 100)
           /\ {"index_processed_chunks", "index_total_chunks"} \subseteq DOMAIN rec
           /\ rec["chunk_count"] = rec["index_processed_chunks"]
           /\ rec["index_processed_chunks"] <= rec["index_total_chunks"]
           /\ iret'[r].chunk_count = rec["chunk_count"]
           /\ registry_file' = save_registry(repos', NoRegistry, "ok")]_vars

\* the step in which run r calls index_repo
CallsNow(r) ==
    /\ ipc[r] = "idle"
    /\ (ipc'[r] # ipc[r] \/ irun'[r] # irun[r] \/ iret'[r] # iret[r])

\* the store of repo_id is up to date: the sidecar names the record's commit
\* and the store file exists
StoreUpToDate(repo_id) ==
    /\ has_repo(repos, repo_id)
    /\ index_meta[repo_id].kind = "ok"
    /\ index_meta[repo_id].commit_hash = repos[repo_id]["commit_hash"]
    /\ store_file[repo_id]

\* C9: in persistent mode a call of index_repo with force = false on a
\* repository whose store is up to date returns indexed, the stored
\* chunk_count and from_cache, at once, having called neither the embedder nor
\* delete_collection nor create_collection and leaving the store as it was;
\* and no call with force = true returns from_cache.
C9_FreshIndexServedFromCache ==
    [][\A r \in Runs :
         /\ (/\ CallsNow(r)
             /\ use_persistent_index
             /\ ~irun'[r].force
             /\ StoreUpToDate(irun'[r].repo_id))
            => /\ ipc'[r] = "idle"
               /\ iret'[r] = IndexReturned(index_meta[irun'[r].repo_id].chunk_count, TRUE)
               /\ irun'[r].embed_calls = 0
               /\ irun'[r].collection_ops = 0
               /\ UNCHANGED <<index_meta, store_file>>
         /\ iret'[r].from_cache => ~irun'[r].force]_vars

\* a call answered from_cache out of a store that an earlier call had built
C9_Witness ==
    \E r \in Runs :
        /\ use_persistent_index
        /\ ipc[r] = "idle"
        /\ ~irun[r].force
        /\ iret[r] = IndexReturned(2, TRUE)
        /\ irun[r].embed_calls = 0
        /\ irun[r].collection_ops = 0

(***************************************************************************)
(* Properties of the evaluator                                             *)
(***************************************************************************)
\* the last call of evaluate_generation had a non-empty bundle and is over
Evaluated == epc = "idle" /\ _build_code_bundle(ediffs) # <<>>

\* C15: for a non-empty code bundle evaluate_generation returns a result
\* (it does not raise) with enabled = true, a failed or timed-out reviewer
\* reported as null, and a controller decision that is one of
\* ACCEPT_ORIGINAL, MERGE_FEEDBACK, REQUEST_REVISION.
C15_EvaluationDegrades ==
    Evaluated
        => /\ eresult.kind = "result"
           /\ eresult.enabled
           /\ eresult.critic = (IF ecritic.kind = "error" THEN NoReview ELSE ecritic)
           /\ eresult.defender = (IF edefender.kind = "error" THEN NoReview ELSE edefender)
           /\ eresult.controller.decision \in Decisions

\* an evaluation whose critic failed while the defender answered
C15_Witness ==
    /\ Evaluated
    /\ ecritic.kind = "error"
    /\ edefender.kind = "verdict"
    /\ eresult.critic = NoReview
    /\ eresult.defender.provider = "ollama_b"

(***************************************************************************)
(* Properties of the agents                                                *)
(***************************************************************************)
\* C16 as stated: generate, answer and generate_tests never let an
\* exception reach their caller; whichever step failed, the call returns an
\* object that shows the error text in one of its fields.
C16_AgentsNeverRaise ==
    (apc = "idle" /\ acall.fn # "none")
        => /\ aret.kind = "returned"
           /\ afailed # "none" => aret.error # "none"

(***************************************************************************)
(* Properties of the refinement loop                                       *)
(***************************************************************************)
\* C17: run_refinement makes at most MAX_ITERATIONS test runs and stops at
\* the first passing one: in what it returns iteration_log has 0 to
\* MAX_ITERATIONS entries, total_iterations is its length, no entry but the
\* last has tests_passed, and success holds exactly when the last entry
\* passed.
C17_RefinementBounded ==
    /\ fruns <= MAX_ITERATIONS
    /\ fres.kind = "result"
          => LET log == fres.iteration_log IN
             /\ Len(log) \in 0..MAX_ITERATIONS
             /\ fres.total_iterations = Len(log)
             /\ \A k \in 1..Len(log) : log[k].tests_passed => k = Len(log)
             /\ fres.success <=> (Len(log) > 0 /\ log[Len(log)].tests_passed)

\* a refinement that passed at its third run, after two refined failures
C17_Witness ==
    /\ fpc = "idle"
    /\ fres.kind = "result"
    /\ fres.success
    /\ fres.total_iterations = 3
    /\ fruns = 3

(***************************************************************************)
(* Properties of the registry                                              *)
(***************************************************************************)
\* the record the claim expects for a persisted entry
Rehydrated(info) ==
    IF m_persistent THEN parse_info(info)
    ELSE [parse_info(info) EXCEPT !["indexed"] = FALSE]

\* C18 as stated: after the registry was persisted and reloaded, every
\* persisted record whose local_path exists is present with equal fields,
\* except indexed, which is false when the vector store is ephemeral; the
\* records whose local_path is gone are dropped.
C18_RegistryRoundTrip ==
    (m_reloaded /\ m_file.state = "written")
        => \A id \in RegIds :
             IF id \in DOMAIN m_file.data /\ m_file.data[id]["local_path"] \in m_paths
             THEN has_repo(m_repos, id) /\ m_repos[id] = Rehydrated(m_file.data[id])
             ELSE ~has_repo(m_repos, id)

(***************************************************************************)
(* Properties of cloning                                                   *)
(***************************************************************************)
\* C19 as stated: when a clone fails (exit status, timeout or another
\* error), the temporary directory of the attempt is gone by the time the
\* error is raised to the caller.
C19_FailedCloneCleaned ==
    (cpc = "idle" /\ cret.kind = "raised") => ~ctemp

(***************************************************************************)
(* Properties of chat_completion                                           *)
(***************************************************************************)
\* C20 as stated: a call without provider_override whose local provider
\* failed went on to the next provider of the chain; a call with
\* provider_override called no provider but the overridden one.
C20_LocalFailureFallsBack ==
    (lpc = "idle" /\ l_called # <<>>)
        => /\ (l_override = "none" /\ l_called[1].provider = "ollama" /\ ~l_called[1].ok)
                 => Len(l_called) >= 2
           /\ l_override # "none"
                 => \A i \in 1..Len(l_called) : l_called[i].provider = l_override

(***************************************************************************)
(* Properties of the embeddings of a collection                            *)
(***************************************************************************)
\* C21: the vectors added to the collection of one repository all have the
\* same dimension, also when embed_batch falls back to another provider
\* between two batches of one index_repo run.
C21_OneDimensionPerCollection ==
    \A id \in Repos : Cardinality(collection[id].dims) <= 1

(***************************************************************************)
(* Properties of the time budget of index_repo                             *)
(***************************************************************************)
\* the chunks of run r embedded and added once its present batch is
BatchDone(r) == irun[r].processed + Min(batch_size, irun[r].chunks - irun[r].processed)

\* C30: when index_repo returns out of the embed loop, also when the time
\* budget stops the loop before the last batch, it has made no further
\* embed call, the record has indexed = true, and the chunk_count returned
\* and recorded is the number of chunks embedded and added to the
\* collection: at least one batch, at most max_chunks, whatever was planned.
C30_BudgetStopsCleanly ==
    [][\A r \in ERuns :
         (ipc[r] = "embed" /\ ReturnsNow(r)) =>
           LET id == irun[r].repo_id
               n == BatchDone(r)
           IN  /\ iret'[r].chunk_count = n
               /\ n >= 1 /\ n <= max_chunks /\ n <= irun[r].chunks
               /\ irun'[r].embed_calls = irun[r].embed_calls + 1
               /\ n <= irun'[r].embed_calls * batch_size
               /\ n > (irun'[r].embed_calls - 1) * batch_size
               /\ FieldIs(repos'[id], "indexed", TRUE)
               /\ FieldIs(repos'[id], "chunk_count", n)]_vars

\* a call that planned two chunks has returned after one batch
C30_Witness ==
    \E r \in ERuns :
        /\ ipc[r] = "idle"
        /\ iret[r] = IndexReturned(1, FALSE)
        /\ irun[r].chunks = 2
        /\ irun[r].embed_calls = 1
        /\ collection[irun[r].repo_id].dims # {}
        /\ FieldIs(repos[irun[r].repo_id], "indexed", TRUE)
        /\ FieldIs(repos[irun[r].repo_id], "chunk_count", 1)

(***************************************************************************)
(* Properties of the flags of a repository record                          *)
(***************************************************************************)
\* C25: in every state of a repository record that another task or request
\* can observe, under concurrent index_repo calls and after a call that
\* raised, is_indexing and indexed are not both true.
C25_IndexingExcludesIndexed ==
    \A id \in Repos :
        has_repo(repos, id) =>
            ~(FieldIs(repos[id], "is_indexing", TRUE) /\ FieldIs(repos[id], "indexed", TRUE))

\* a call on a record that holds the flags is in progress while a concurrent
\* call on the same repository, started after it, has completed the record
C25_Witness ==
    \E a, b \in Runs :
        /\ a # b
        /\ InProgress(a)
        /\ ipc[b] = "idle"
        /\ iret[b].kind = "returned"
        /\ irun[a].repo_id = irun[b].repo_id
        /\ irun[a].collection_ops = 0
        /\ irun[b].embed_calls > 0
        /\ FieldIs(repos[irun[a].repo_id], "is_indexing", FALSE)
        /\ FieldIs(repos[irun[a].repo_id], "indexed", TRUE)

(***************************************************************************)
(* Properties of the selection of files                                    *)
(***************************************************************************)
IsPrefix(a, b) == Len(a) <= Len(b) /\ a = SubSeq(b, 1, Len(a))

RECURSIVE TotalSize(_)
TotalSize(fs) == IF fs = <<>> THEN 0 ELSE Head(fs).size + TotalSize(Tail(fs))

\* files taken in order until the next one would exceed either cap
RECURSIVE select_loop_break(_, _, _, _)
select_loop_break(eligible, i, selected, selected_bytes) ==
    IF i > Len(eligible) THEN selected
    ELSE IF Len(selected) >= max_index_files THEN selected
    ELSE IF selected_bytes + eligible[i].size > max_index_total_bytes THEN selected
    ELSE select_loop_break(eligible, i + 1, Append(selected, eligible[i]),
                           selected_bytes + eligible[i].size)

\* C29: the files selected are a prefix of the eligible files in priority
\* order, taken until the next file would exceed max_index_files or
\* max_index_total_bytes, and they respect both caps unless they are the
\* single file of the at-least-one fallback.
C29_SelectionIsPrefix ==
    selected_files # NoSelection =>
        LET eligible == sorted_eligible(listed_files) IN
        /\ IsPrefix(selected_files, eligible)
        /\ selected_files = select_loop_break(eligible, 1, <<>>, 0)
           \/ (select_loop_break(eligible, 1, <<>>, 0) = <<>> /\ eligible # <<>>
               /\ selected_files = <<eligible[1]>>)
        /\ (/\ Len(selected_files) <= max_index_files
            /\ TotalSize(selected_files) <= max_index_total_bytes)
           \/ Len(selected_files) = 1

(***************************************************************************)
(* Properties of the caches across a re-index                              *)
(***************************************************************************)
\* the entry of a store under a key, named by its key and created_at
NameOf(store, key) == <<key, store[IndexOfKey(store, key)].created_at>>

\* the step in which the request is answered out of the response cache
ResponseServed == spc = "begin" /\ spc' = "idle" /\ sresp'.status = "ok"

\* the step in which a request that began after the last re-index of its
\* repository takes its routing out of the routing cache
RoutingServed ==
    /\ spc = "route"
    /\ spc' # "route"
    /\ scalls'.router = scalls.router
    /\ scommit = repoCommit[sreq.repo_id]

\* C22: once a repository is loaded again at a new commit hash, no request
\* about it is served a response entry or a routing entry that was stored
\* before.
C22_NoEntryAcrossReindex ==
    [][/\ ResponseServed =>
            NameOf(response_store, response_key(sreq.repo_id, sreq.question,
                                                repoCommit[sreq.repo_id]))
                \notin before_reindex[sreq.repo_id].responses
       /\ RoutingServed =>
            NameOf(routing_store, routing_key(sreq.question))
                \notin before_reindex[sreq.repo_id].routings]_vars

(***************************************************************************)
(* Properties of a request routed to TEST without GENERATE                 *)
(***************************************************************************)
\* the present request is dispatched on a decision that asks for TEST and
\* not for GENERATE
TestAlone ==
    /\ spc \notin {"begin", "route"}
    /\ sresult # NoResult
    /\ ~is_refused(sresult.routing)
    /\ wants_test(sresult.routing)
    /\ ~wants_generate(sresult.routing)

\* C23: when the decision asks for TEST and not for GENERATE, the test
\* generator runs exactly once, after phase A is over, and the evaluator
\* never: the result has a test entry and no evaluation entry.
C23_TestAloneNoEvaluator ==
    TestAlone =>
        /\ scalls.generate = 0
        /\ scalls.evaluator = 0
        /\ scalls.test <= 1
        /\ scalls.test = 1 =>
              scalls.explain = (IF "explain" \in phase_a_tasks(sresult.routing) THEN 1 ELSE 0)
        /\ Returned =>
              /\ scalls.test = 1
              /\ sresp.result.test.kind \in {"ok", "error"}
              /\ sresp.result.evaluation = Absent

\* a request routed to EXPLAIN with TEST beside it has returned: explain ran
\* in phase A, then the test generator, and no evaluator
C23_Witness ==
    /\ TestAlone
    /\ Returned
    /\ sresult.routing.primary_action = "EXPLAIN"
    /\ scalls.explain = 1
    /\ scalls.test = 1
    /\ scalls.evaluator = 0
    /\ sresp.result.test.kind = "ok"
    /\ sresp.result.evaluation = Absent

(***************************************************************************)
(* Properties of a phase-A task that raises                                *)
(***************************************************************************)
\* phase A of the present request ran explain and generate, and exactly one
\* of the two raised
OnePhaseATaskRaised ==
    /\ spc \notin {"begin", "route", "phaseA"}
    /\ sresult # NoResult
    /\ phase_a_tasks(sresult.routing) = {"explain", "generate"}
    /\ (sresult.explain.kind = "error") # (sresult.generate.kind = "error")

\* the slot of the task that raised holds the error and the slot of the
\* other task what it returned
PhaseASlotsKept ==
    OnePhaseATaskRaised =>
        /\ scalls.explain = 1 /\ scalls.generate = 1
        /\ {sresult.explain.kind, sresult.generate.kind} = {"error", "ok"}
        /\ Returned => /\ sresp.result.explain = sresult.explain
                       /\ sresp.result.generate = sresult.generate

Entries(store) == {store[i] : i \in 1..Len(store)}

\* what a put of key into a store of max_entries left of the store it found
\* at capacity: a quarter of the capacity is gone, the oldest entries, and
\* the new entry is in.  The entry the key had before is replaced whether
\* it was evicted or not, so it is counted apart.
EvictedThenInserted(old, new, key, max_entries, t) ==
    LET others(store) == {e \in Entries(store) : e.key # key}
        mine == {e \in Entries(old) : e.key = key}
        gone == others(old) \ others(new)
        kept == others(old) \cap others(new)
        quarter == max_entries \div 4
    IN  /\ others(new) \subseteq others(old)
        /\ \A g \in gone, k \in kept : g.created_at <= k.created_at
        /\ \/ Cardinality(gone) = quarter
           \/ /\ Cardinality(gone) = quarter - 1
              /\ mine # {}
              /\ \A m \in mine, k \in kept : m.created_at <= k.created_at
        /\ Len(new) = Cardinality(kept) + 1
        /\ \E i \in 1..Len(new) :
              new[i].key = key /\ new[i].created_at = t /\ new[i].hits = 0

WithinCapacity ==
    /\ Len(response_store) <= RESPONSE_MAX_ENTRIES
    /\ Len(routing_store) <= ROUTING_MAX_ENTRIES

\* C26: whatever calls are made, the response store holds at most 200
\* entries and the routing store at most 500; a put that finds its store at
\* capacity evicts a quarter of the capacity (50, 125), the entries created
\* first, and then inserts.
C26_CapacityAndEviction ==
    /\ []WithinCapacity
    /\ [][/\ (cache_call'.op = "put_response"
              /\ Len(response_store) >= RESPONSE_MAX_ENTRIES) =>
                EvictedThenInserted(response_store, response_store', cache_call'.key,
                                    RESPONSE_MAX_ENTRIES, now)
          /\ (cache_call'.op = "put_routing"
              /\ Len(routing_store) >= ROUTING_MAX_ENTRIES) =>
                EvictedThenInserted(routing_store, routing_store', cache_call'.key,
                                    ROUTING_MAX_ENTRIES, now)]_vars

\* both stores were found at capacity by a put of a new key: 50 of 200 and
\* 125 of 500 entries are gone and the new ones in
C26_Witness ==
    /\ cache_call.op = "put_routing"
    /\ Len(routing_store) = ROUTING_MAX_ENTRIES - (ROUTING_MAX_ENTRIES \div 4) + 1
    /\ Len(response_store) = RESPONSE_MAX_ENTRIES - (RESPONSE_MAX_ENTRIES \div 4) + 1

Keys(store) == {store[i].key : i \in 1..Len(store)}

\* C27: the eviction of the response store is least-recently-used: an entry
\* read by a hit after another entry was last used is not evicted while
\* that other entry is kept.  The entry hit last is judged against the
\* entries created before that hit.
C27_EvictionIsLRU ==
    [][LET hit == cache_call.last_hit IN
       (/\ cache_call'.op = "put_response"
        /\ hit.key \in Keys(response_store)
        /\ hit.key \notin Keys(response_store')) =>
           \A e \in Entries(response_store) :
               (e.key # hit.key /\ e.created_at < hit.at) =>
                   e.key \notin Keys(response_store')]_vars

\* C28: invalidate_repo(r) removes every response entry of r and nothing
\* else, leaves the routing store as it was and returns the number of
\* entries removed; from then on the response store holds no entry of r,
\* and every lookup for r misses, until a response for r is stored.
C28_InvalidateRepo ==
    [][/\ cache_call'.op = "invalidate_repo" =>
            /\ routing_store' = routing_store
            /\ response_store' =
                   SelectSeq(response_store, LAMBDA e : e.key[1] # cache_call'.repo_id)
            /\ cache_call'.count = Len(response_store) - Len(response_store')
       /\ \A r \in cache_call'.invalidated :
              \A e \in Entries(response_store') : e.key[1] # r
       /\ (cache_call'.op = "get_response"
           /\ cache_call'.repo_id \in cache_call.invalidated) => ~cache_call'.hit]_vars

\* a lookup of the first response ever stored, made after its repository
\* was invalidated, has missed; the entries of the other repository and
\* the routing entries are still there
C28_Witness ==
    /\ cache_call.op = "get_response"
    /\ cache_call.repo_id = FillerRepo(1)
    /\ cache_call.key = ResponseFiller(1).key
    /\ cache_call.repo_id \in cache_call.invalidated
    /\ ~cache_call.hit
    /\ Len(response_store) >= (RESPONSE_MAX_ENTRIES - 1) \div 2
    /\ Len(routing_store) >= ROUTING_MAX_ENTRIES - 1

(***************************************************************************)
(* Properties of a request whose routing asks for TEST                     *)
(***************************************************************************)
\* C35: every request that is not refused and whose routing asks for TEST
\* returns a result with a test entry: a test result, an error record or a
\* skipped marker, also when generate ran and raised or returned no diffs.
C35_TestEntryWhenWanted ==
    (/\ Returned
     /\ sresult # NoResult
     /\ ~is_refused(sresp.result.routing)
     /\ wants_test(sresp.result.routing)) =>
        sresp.result.test.kind # "absent"

(***************************************************************************)
(* Properties of the chunker                                               *)
(***************************************************************************)
ChunkingDone == kpc = "done" /\ kfile.lines # <<>>

\* C32: the chunks of a non-empty file lie within the file, each holds
\* exactly the lines from its start_line to its end_line, and every line of
\* the file is in at least one chunk.
C32_ChunksSliceTheFile ==
    ChunkingDone =>
        /\ \A n \in 1..Len(kchunks) :
              /\ 1 <= kchunks[n].start_line
              /\ kchunks[n].start_line <= kchunks[n].end_line
              /\ kchunks[n].end_line <= Len(kfile.lines)
              /\ kchunks[n].content =
                     SubSeq(kfile.lines, kchunks[n].start_line, kchunks[n].end_line)
        /\ \A l \in 1..Len(kfile.lines) :
              \E n \in 1..Len(kchunks) :
                  kchunks[n].start_line <= l /\ l <= kchunks[n].end_line

\* a documentation file of four lines was cut into three chunks or more, and
\* a code file into two that overlap
C32_Witness ==
    /\ ChunkingDone
    /\ Len(kfile.lines) = MaxLines
    /\ \/ kfile.chunk_type = "doc" /\ Len(kchunks) >= 3
       \/ /\ kfile.chunk_type = "code"
          /\ Len(kchunks) = 2
          /\ kchunks[2].start_line <= kchunks[1].end_line

\* the lines two chunks have in common, the second starting later
Shared(a, b) == Larger(0, a.end_line - b.start_line + 1)

\* C33: chunk_code_file terminates for every chunk size of at least one
\* line and every overlap, also one as large as the chunk size; each
\* iteration moves i forward, so the start lines of successive chunks
\* increase strictly, and two consecutive chunks share at most
\* code_chunk_overlap lines.
C33_CodeChunkingTerminates ==
    /\ <>(kpc = "done")
    /\ [][kpc = "code" =>
            /\ ki' > ki
            /\ Len(kchunks) >= 1 =>
                 LET a == kchunks'[Len(kchunks)]
                     b == kchunks'[Len(kchunks) + 1]
                 IN  /\ b.start_line > a.start_line
                     /\ Shared(a, b) <= kcfg.code_overlap]_vars

\* a code file was chunked with an overlap as large as the chunk size: the
\* loop has ended with several chunks
C33_Witness ==
    /\ kpc = "done"
    /\ kfile.chunk_type = "code"
    /\ kcfg.code_overlap >= kcfg.code_chunk_lines
    /\ Len(kchunks) >= 3

\* C34: the chunks of one file have pairwise distinct start lines, hence
\* pairwise distinct chunk ids, whatever the strategy.
C34_DistinctChunkIds ==
    kpc = "done" =>
        \A m, n \in 1..Len(kchunks) :
            m # n => /\ kchunks[m].start_line # kchunks[n].start_line
                     /\ kchunks[m].chunk_id # kchunks[n].chunk_id

(***************************************************************************)
(* Properties of the progress a run reports                                *)
(***************************************************************************)
ProgressFields == {"index_progress_pct", "index_processed_chunks", "index_total_chunks"}

\* what the record of the repository of run r shows of its progress
ProgressShown(r) ==
    LET rec == repos[irun[r].repo_id]
        pct == rec["index_progress_pct"]
    IN  /\ ProgressFields \subseteq DOMAIN rec
        /\ 0 <= pct /\ pct <= 100
        /\ ipc[r] \in {"list", "read", "chunk", "prepare"} => pct <= 10
        /\ ipc[r] \in {"embed", "final"} => (15 <= pct /\ pct <= 99)
        /\ rec["index_processed_chunks"] <= rec["index_total_chunks"]

\* C31: within one index_repo run the record's index_progress_pct stays
\* within 0..100 and never decreases: at most 10 while files are read, from
\* 15 to 99 in the embed phase, 100 only once the run has returned
\* normally; index_processed_chunks never exceeds index_total_chunks.
C31_ProgressMonotone ==
    /\ [](\A r \in ERuns : ipc[r] # "idle" => ProgressShown(r))
    /\ [][\A r \in ERuns :
            ipc[r] # "idle" =>
                LET id == irun[r].repo_id IN
                /\ "index_progress_pct" \in DOMAIN repos'[id]
                /\ repos'[id]["index_progress_pct"] >= repos[id]["index_progress_pct"]
                /\ repos'[id]["index_progress_pct"] = 100 =>
                       (ipc'[r] = "idle" /\ iret'[r].kind = "returned")]_vars

(***************************************************************************)
(* Properties of the controller verdict                                    *)
(***************************************************************************)
\* C36: every verdict evaluate_generation returns with the decision
\* MERGE_FEEDBACK carries a non-empty improved_code_by_file of validated
\* entries, whether the controller answered or its fallback did.
C36_MergeCarriesCode ==
    (/\ epc = "idle"
     /\ eresult.kind = "result"
     /\ eresult.controller.decision = "MERGE_FEEDBACK") =>
        /\ eresult.controller.improved_code_by_file # <<>>
        /\ validated_improved(eresult.controller.improved_code_by_file) =
               eresult.controller.improved_code_by_file

(***************************************************************************)
(* Properties of the registry across loads and restarts                    *)
(***************************************************************************)
\* C37 as stated: loading a repository that is already registered at the
\* same commit leaves its record in the registry with the indexed flag and
\* the chunk_count it had before the second load.
C37_SecondLoadKeepsIndexState ==
    [][\A id \in RegIds :
         (has_repo(m_repos, id) /\ RegLoadRepo(id))
            => /\ has_repo(m_repos', id)
               /\ m_repos'[id]["indexed"] = m_repos[id]["indexed"]
               /\ m_repos'[id]["chunk_count"] = m_repos[id]["chunk_count"]]_vars

\* C38 as stated: after a restart every record of the registry, a record
\* persisted during an index run included, carries is_indexing = false,
\* with a persistent and with an ephemeral vector store.
C38_RestartClearsIndexing ==
    m_reloaded
        => \A id \in RegIds :
             has_repo(m_repos, id)
                => /\ "is_indexing" \in DOMAIN m_repos[id]
                   /\ m_repos[id]["is_indexing"] = FALSE

(***************************************************************************)
(* Properties of the refinement result                                     *)
(***************************************************************************)
\* C39 as stated: in a result of run_refinement with at least one
\* iteration, final_test_output is the output of the pytest run of the
\* returned final_tests on the returned final_code.
C39_FinalOutputOfFinalPair ==
    (fpc = "idle" /\ fres.kind = "result" /\ fres.total_iterations >= 1)
        => /\ fres.final_test_output.code = fres.final_code
           /\ fres.final_test_output.tests = fres.final_tests

====
